---- MODULE Spec2Model ----
(***************************************************************************)
(* Model of the Automata change-orchestration pipeline: the Jira webhook   *)
(* handler (route.ts), the output parser and submission manager            *)
(* (context.ts, the lib/github part), the safety guard (guards.ts), the    *)
(* keyword extractor (context.ts) and the CI helpers (audit.ts, the        *)
(* lib/ci-checker part).                                                   *)
(*                                                                         *)
(* Text is modelled at character level: a string is a sequence of          *)
(* one-character strings, so that includes / startsWith / endsWith / trim  *)
(* / split and the regular expressions of the source are computed, not     *)
(* assumed.                                                                *)
(***************************************************************************)
EXTENDS Integers, Sequences, FiniteSets, TLC

VARIABLES
    gList, gPc, gResult, gOutcome,
    pIn, pSegs, pPc, pCandidates, pOut,
    kTicket, kTokens, kPc, kOut, kRuns,
    pc, payload, ticket, contextCount, generatedCode, fileChanges,
    guardResult, validation, submitChanges, writeIndex, branchFiles,
    prState, prNumber, prError, ciResult, ciStatus, audit, calls, response,
    sPath, sKeywords, sExtra, sPc, sScore, sScoreMore,
    vChanges, vEnv, vPc, vResult,
    wMaxWait, wNow, wPc, wSleep, wState, wRuns, wResult, wReturnedAt,
    wPassedAt, wClean, wLastPoll,
    cTicket, cTree, cPc, cSelected, cIndex, cContexts, cFailed, cTreeOutcome,
    aKey, aPrompt, aOutput, aPc, aLog, aClock,
    eDescription, ePc, eInfo, eFlag,
    bKey, bPc, bName, bBase, bStatus, bLookup, bSha, bExisted, bRefs, bDefault,
    bClock,
    lChecksPassed,
    tClock, tStamp, tPc, tChanges, tResult, tFsDirs, tFsFiles

guardVars == <<gList, gPc, gResult, gOutcome>>

parseVars == <<pIn, pSegs, pPc, pCandidates, pOut>>

kwVars == <<kTicket, kTokens, kPc, kOut, kRuns>>

pipeVars ==
    <<pc, payload, ticket, contextCount, generatedCode, fileChanges,
      guardResult, validation, submitChanges, writeIndex, branchFiles,
      prState, prNumber, prError, ciResult, ciStatus, audit, calls, response>>

scoreVars == <<sPath, sKeywords, sExtra, sPc, sScore, sScoreMore>>

valVars == <<vChanges, vEnv, vPc, vResult>>

ciVars ==
    <<wMaxWait, wNow, wPc, wSleep, wState, wRuns, wResult, wReturnedAt,
      wPassedAt, wClean, wLastPoll>>

ctxVars ==
    <<cTicket, cTree, cPc, cSelected, cIndex, cContexts, cFailed,
      cTreeOutcome>>

auditVars == <<aKey, aPrompt, aOutput, aPc, aLog, aClock>>

errVars == <<eDescription, ePc, eInfo, eFlag>>

branchVars ==
    <<bKey, bPc, bName, bBase, bStatus, bLookup, bSha, bExisted, bRefs,
      bDefault, bClock>>

lateVars == <<lChecksPassed>>

tmpVars == <<tClock, tStamp, tPc, tChanges, tResult, tFsDirs, tFsFiles>>

extVars == <<errVars, branchVars, lateVars, tmpVars>>

auxVars == <<scoreVars, valVars, ciVars, ctxVars, auditVars, extVars>>

vars == <<guardVars, parseVars, kwVars, pipeVars, auxVars>>

----------------------------------------------------------------------------
(* Character-level string primitives (JavaScript String methods).          *)

UpperLetters ==
    <<"A","B","C","D","E","F","G","H","I","J","K","L","M",
      "N","O","P","Q","R","S","T","U","V","W","X","Y","Z">>

LowerLetters ==
    <<"a","b","c","d","e","f","g","h","i","j","k","l","m",
      "n","o","p","q","r","s","t","u","v","w","x","y","z">>

Digits == {"0","1","2","3","4","5","6","7","8","9"}

IsUpper(c) == \E i \in 1..26 : UpperLetters[i] = c

IsLower(c) == \E i \in 1..26 : LowerLetters[i] = c

\* String.prototype.toLowerCase on one character
LowerChar(c) ==
    IF IsUpper(c) THEN LowerLetters[CHOOSE i \in 1..26 : UpperLetters[i] = c]
    ELSE c

toLowerCase(s) == [i \in 1..Len(s) |-> LowerChar(s[i])]

\* s.startsWith(p)
startsWith(s, p) == Len(p) <= Len(s) /\ SubSeq(s, 1, Len(p)) = p

\* s.endsWith(p)
endsWith(s, p) ==
    Len(p) <= Len(s) /\ SubSeq(s, Len(s) - Len(p) + 1, Len(s)) = p

\* s.includes(p)
includes(s, p) ==
    \E i \in 1..(Len(s) - Len(p) + 1) : SubSeq(s, i, i + Len(p) - 1) = p

\* fileChanges.map(fc => fc.path)
PathsOf(changes) == [i \in 1..Len(changes) |-> changes[i].path]

----------------------------------------------------------------------------
(* Safety guard (guards.ts).                                               *)

BLOCKED_PATTERNS ==
    << <<".","g","i","t","h","u","b","/">>,
       <<"i","n","f","r","a","/">>,
       <<"a","u","t","h","/">>,
       <<"s","e","c","r","e","t","s">>,
       <<".","e","n","v">>,
       <<"p","a","c","k","a","g","e","-","l","o","c","k",".","j","s","o","n">>,
       <<"y","a","r","n",".","l","o","c","k">>,
       <<"p","n","p","m","-","l","o","c","k",".","y","a","m","l">> >>

MAX_FILE_CHANGES == 3

\* the alternatives of /\.(ts|tsx|js|jsx|json|md|css|scss|html)$/
GuardExtensions ==
    { <<".","t","s">>, <<".","t","s","x">>, <<".","j","s">>,
      <<".","j","s","x">>, <<".","j","s","o","n">>, <<".","m","d">>,
      <<".","c","s","s">>, <<".","s","c","s","s">>,
      <<".","h","t","m","l">> }

isPathBlocked(path) ==
    LET lowerPath == toLowerCase(path)
    IN  \E k \in 1..Len(BLOCKED_PATTERNS) :
            includes(lowerPath, toLowerCase(BLOCKED_PATTERNS[k]))

\* the filter without the absolute-path test
GuardPathInvalid_NoAbsolute(path) ==
    \/ includes(path, <<".",".">>)
    \/ ~ \E e \in GuardExtensions : endsWith(path, e)

\* the predicate of the invalidPaths filter
GuardPathInvalid(path) ==
    \/ includes(path, <<".",".">>)
    \/ startsWith(path, <<"/">>)
    \/ ~ \E e \in GuardExtensions : endsWith(path, e)

ReasonCount == "Exceeds maximum file change limit of 3"
ReasonBlocked == "Contains files in blocked paths"
ReasonInvalid == "Contains invalid file paths"
\* an absent optional field (reason); an absent blockedFiles is <<>>
NoValue == "undefined"

\* the rules with the denylist evaluated before the count
validateFileChanges_DenylistFirst(changes) ==
    LET IsBlocked(fc) == isPathBlocked(fc.path)
        IsInvalid(fc) == GuardPathInvalid(fc.path)
        blockedFiles == SelectSeq(changes, IsBlocked)
        invalidPaths == SelectSeq(changes, IsInvalid)
    IN  IF Len(blockedFiles) > 0
        THEN [allowed |-> FALSE, reason |-> ReasonBlocked,
              blockedFiles |-> PathsOf(blockedFiles)]
        ELSE IF Len(changes) > MAX_FILE_CHANGES
        THEN [allowed |-> FALSE, reason |-> ReasonCount,
              blockedFiles |-> PathsOf(changes)]
        ELSE IF Len(invalidPaths) > 0
        THEN [allowed |-> FALSE, reason |-> ReasonInvalid,
              blockedFiles |-> PathsOf(invalidPaths)]
        ELSE [allowed |-> TRUE, reason |-> NoValue, blockedFiles |-> <<>>]

validateFileChanges(changes) ==
    LET IsBlocked(fc) == isPathBlocked(fc.path)
        IsInvalid(fc) == GuardPathInvalid(fc.path)
        blockedFiles == SelectSeq(changes, IsBlocked)
        invalidPaths == SelectSeq(changes, IsInvalid)
    IN  IF Len(changes) > MAX_FILE_CHANGES
        THEN [allowed |-> FALSE, reason |-> ReasonCount,
              blockedFiles |-> PathsOf(changes)]
        ELSE IF Len(blockedFiles) > 0
        THEN [allowed |-> FALSE, reason |-> ReasonBlocked,
              blockedFiles |-> PathsOf(blockedFiles)]
        ELSE IF Len(invalidPaths) > 0
        THEN [allowed |-> FALSE, reason |-> ReasonInvalid,
              blockedFiles |-> PathsOf(invalidPaths)]
        ELSE [allowed |-> TRUE, reason |-> NoValue, blockedFiles |-> <<>>]

\* a second implementation that repeats only the count and denylist rules
guardFileChanges_OwnRules(changes) ==
    IF Len(changes) > MAX_FILE_CHANGES
          \/ \E i \in 1..Len(changes) : isPathBlocked(changes[i].path)
    THEN "throws" ELSE "returns"

\* "throws" when the enforcing call raises, "returns" otherwise
guardFileChanges(changes) ==
    LET result == validateFileChanges(changes)
    IN  IF ~ result.allowed THEN "throws" ELSE "returns"

----------------------------------------------------------------------------
(* Output parser (context.ts, parseAICodeOutput).                          *)

\* characters String.prototype.trim removes and \s matches
Whitespace == {" ", "\t", "\n", "\r"}

\* characters the regular-expression dot does not match
LineTerminators == {"\n", "\r"}

\* the class \w
IsWordChar(c) == IsUpper(c) \/ IsLower(c) \/ c \in Digits \/ c = "_"

RECURSIVE trimStart(_)
trimStart(s) ==
    IF s # <<>> /\ Head(s) \in Whitespace THEN trimStart(Tail(s)) ELSE s

RECURSIVE trimEnd(_)
trimEnd(s) ==
    IF s # <<>> /\ s[Len(s)] \in Whitespace
    THEN trimEnd(SubSeq(s, 1, Len(s) - 1)) ELSE s

\* s.trim()
trim(s) == trimEnd(trimStart(s))

\* aiOutput.split('\n')
RECURSIVE split(_)
split(s) ==
    IF \E i \in 1..Len(s) : s[i] = "\n"
    THEN LET i == CHOOSE j \in 1..Len(s) :
                      s[j] = "\n" /\ \A k \in 1..(j - 1) : s[k] # "\n"
         IN  <<SubSeq(s, 1, i - 1)>> \o split(SubSeq(s, i + 1, Len(s)))
    ELSE <<s>>

\* lines.join('\n')
RECURSIVE join(_)
join(lines) ==
    IF lines = <<>> THEN <<>>
    ELSE IF Len(lines) = 1 THEN lines[1]
    ELSE lines[1] \o <<"\n">> \o join(Tail(lines))

NoTerminator(s) == \A i \in 1..Len(s) : s[i] \notin LineTerminators

S_file == <<"f","i","l","e",":">>

\* the backquote character (a string literal cannot hold it)
Backquote == "backquote"

S_fence == <<Backquote, Backquote, Backquote>>

\* the text after the 5-character "File:" prefix, after the 3-character fence
AfterPrefix(line, n) == SubSeq(line, n + 1, Len(line))

\* line.match(/^File:\s*(.+)$/i): the positions where group 1 can start
FileGroupStarts(line) ==
    LET r == AfterPrefix(line, 5)
    IN  { j \in 1..Len(r) :
            /\ \A k \in 1..(j - 1) : r[k] \in Whitespace
            /\ NoTerminator(SubSeq(r, j, Len(r))) }

MatchesFileHeader(line) ==
    /\ startsWith(toLowerCase(line), S_file)
    /\ FileGroupStarts(line) # {}

\* group 1 of /^File:\s*(.+)$/i: \s* is greedy, so the group starts as
\* late as the match allows
FileHeaderGroup(line) ==
    LET r == AfterPrefix(line, 5)
        j == CHOOSE m \in FileGroupStarts(line) :
                 \A n \in FileGroupStarts(line) : n <= m
    IN  SubSeq(r, j, Len(r))

\* line.match(/^```(\w+)?:?(.+)$/): anything non-empty may follow the fence
MatchesFenceHeader(line) ==
    /\ startsWith(line, S_fence)
    /\ Len(line) > 3
    /\ NoTerminator(AfterPrefix(line, 3))

\* length of the longest prefix of r made of word characters
RECURSIVE WordPrefixLen(_)
WordPrefixLen(r) ==
    IF r # <<>> /\ IsWordChar(Head(r)) THEN 1 + WordPrefixLen(Tail(r)) ELSE 0

\* group 1 of /^```\w*:?(.+)$/: \w* and :? are greedy and give back only
\* what the non-empty group needs
FenceHeaderGroup(line) ==
    LET r == AfterPrefix(line, 3)
        w == WordPrefixLen(r)
        rest == SubSeq(r, w + 1, Len(r))
    IN  IF rest # <<>> /\ Head(rest) = ":"
        THEN IF Len(rest) > 1 THEN Tail(rest) ELSE rest
        ELSE IF rest # <<>> THEN rest
        ELSE SubSeq(r, Len(r), Len(r))

\* line.trim() === '```' || line.trim().startsWith('```')
IsFenceMarker(line) == startsWith(trim(line), S_fence)

S_import == <<"i","m","p","o","r","t">>

S_export == <<"e","x","p","o","r","t">>

S_function == <<"f","u","n","c","t","i","o","n">>

LooksLikeCode(line) ==
    includes(line, S_import) \/ includes(line, S_export)
        \/ includes(line, S_function)

DEFAULT_PATH == <<"l","i","b","/","f","i","x",".","t","s">>

FALLBACK_PATH == <<"l","i","b","/","a","i","-","f","i","x",".","t","s">>

\* let currentPath: string | null
NullPath == [isNull |-> TRUE, val |-> <<>>]

SomePath(p) == [isNull |-> FALSE, val |-> p]

\* JavaScript truthiness of currentPath: neither null nor ''
Truthy(cp) == ~ cp.isNull /\ cp.val # <<>>

ParseStart == [changes |-> <<>>, currentPath |-> NullPath, currentContent |-> <<>>]

\* the flush with an off-by-one content test
Flush_TwoLines(st) ==
    IF Truthy(st.currentPath) /\ Len(st.currentContent) > 1
    THEN Append(st.changes, [path |-> trim(st.currentPath.val),
                             content |-> join(st.currentContent)])
    ELSE st.changes

\* if (currentPath && currentContent.length > 0) changes.push(...)
Flush(st) ==
    IF Truthy(st.currentPath) /\ Len(st.currentContent) > 0
    THEN Append(st.changes, [path |-> trim(st.currentPath.val),
                             content |-> join(st.currentContent)])
    ELSE st.changes

\* one iteration of the for loop over lines
ParseLine(st, line) ==
    IF MatchesFileHeader(line) \/ MatchesFenceHeader(line)
    THEN [changes |-> Flush(st),
          currentPath |-> SomePath(trim(IF MatchesFileHeader(line)
                                        THEN FileHeaderGroup(line)
                                        ELSE FenceHeaderGroup(line))),
          currentContent |-> <<>>]
    ELSE IF IsFenceMarker(line) THEN st
    ELSE IF Truthy(st.currentPath)
    THEN [st EXCEPT !.currentContent = Append(@, line)]
    ELSE IF LooksLikeCode(line)
    THEN LET cp == IF Len(st.changes) = 0 /\ Len(st.currentContent) = 0
                   THEN SomePath(DEFAULT_PATH) ELSE st.currentPath
         IN  [st EXCEPT !.currentPath = cp,
                        !.currentContent = IF Truthy(cp) THEN Append(@, line)
                                           ELSE @]
    ELSE st

RECURSIVE ParseLines(_, _)
ParseLines(st, lines) ==
    IF lines = <<>> THEN st
    ELSE ParseLines(ParseLine(st, Head(lines)), Tail(lines))

\* the scan without the whole-output fallback
ParseCandidates_NoFallback(aiOutput) ==
    Flush(ParseLines(ParseStart, split(aiOutput)))

\* the list `changes` just before the path validation filter
ParseCandidates(aiOutput) ==
    LET changes == Flush(ParseLines(ParseStart, split(aiOutput)))
    IN  IF Len(changes) = 0 /\ Len(trim(aiOutput)) > 0
        THEN <<[path |-> FALLBACK_PATH, content |-> trim(aiOutput)]>>
        ELSE changes

ParserExtensions_WithPython ==
    { <<".","t","s">>, <<".","t","s","x">>, <<".","j","s">>,
      <<".","j","s","x">>, <<".","j","s","o","n">>, <<".","m","d">>,
      <<".","p","y">> }

\* the alternatives of /\.(ts|tsx|js|jsx|json|md)$/
ParserExtensions ==
    { <<".","t","s">>, <<".","t","s","x">>, <<".","j","s">>,
      <<".","j","s","x">>, <<".","j","s","o","n">>, <<".","m","d">> }

\* the filter without the traversal test
ParserPathValid_NoTraversal(path) ==
    /\ ~ startsWith(path, <<"/">>)
    /\ \E e \in ParserExtensions : endsWith(path, e)

\* the predicate of the validChanges filter
ParserPathValid(path) ==
    /\ ~ (includes(path, <<".",".">>) \/ startsWith(path, <<"/">>))
    /\ \E e \in ParserExtensions : endsWith(path, e)

parseAICodeOutput(aiOutput) ==
    LET Valid(change) == ParserPathValid(change.path)
    IN  SelectSeq(ParseCandidates(aiOutput), Valid)


----------------------------------------------------------------------------
(* Keyword extractor (context.ts, extractKeywords).                        *)

stopWords ==
    { <<"t","h","e">>,
      <<"a">>,
      <<"a","n">>,
      <<"a","n","d">>,
      <<"o","r">>,
      <<"b","u","t">>,
      <<"i","n">>,
      <<"o","n">>,
      <<"a","t">>,
      <<"t","o">>,
      <<"f","o","r">>,
      <<"o","f">>,
      <<"w","i","t","h">>,
      <<"b","y">>,
      <<"i","s">>,
      <<"a","r","e">>,
      <<"w","a","s">>,
      <<"w","e","r","e">>,
      <<"b","e">>,
      <<"b","e","e","n">>,
      <<"h","a","v","e">>,
      <<"h","a","s">>,
      <<"h","a","d">>,
      <<"d","o">>,
      <<"d","o","e","s">>,
      <<"d","i","d">>,
      <<"w","i","l","l">>,
      <<"w","o","u","l","d">>,
      <<"s","h","o","u","l","d">>,
      <<"c","o","u","l","d">>,
      <<"m","a","y">>,
      <<"m","i","g","h","t">>,
      <<"m","u","s","t">>,
      <<"c","a","n">>,
      <<"t","h","i","s">>,
      <<"t","h","a","t">>,
      <<"t","h","e","s","e">>,
      <<"t","h","o","s","e">>,
      <<"i">>,
      <<"y","o","u">>,
      <<"h","e">>,
      <<"s","h","e">>,
      <<"i","t">>,
      <<"w","e">>,
      <<"t","h","e","y">>,
      <<"w","h","a","t">>,
      <<"w","h","i","c","h">>,
      <<"w","h","o">>,
      <<"w","h","e","n">>,
      <<"w","h","e","r","e">>,
      <<"w","h","y">>,
      <<"h","o","w">>,
      <<"a","l","l">>,
      <<"e","a","c","h">>,
      <<"e","v","e","r","y">>,
      <<"b","o","t","h">>,
      <<"f","e","w">>,
      <<"m","o","r","e">>,
      <<"m","o","s","t">>,
      <<"o","t","h","e","r">>,
      <<"s","o","m","e">>,
      <<"s","u","c","h">>,
      <<"n","o">>,
      <<"n","o","r">>,
      <<"n","o","t">>,
      <<"o","n","l","y">>,
      <<"o","w","n">>,
      <<"s","a","m","e">>,
      <<"s","o">>,
      <<"t","h","a","n">>,
      <<"t","o","o">>,
      <<"v","e","r","y">>,
      <<"j","u","s","t">>,
      <<"n","o","w">> }

\* text.split(/\s+/): the pieces between maximal runs of whitespace
RECURSIVE splitWhitespace(_)
splitWhitespace(s) ==
    IF \E i \in 1..Len(s) : s[i] \in Whitespace
    THEN LET i == CHOOSE j \in 1..Len(s) :
                      s[j] \in Whitespace
                      /\ \A k \in 1..(j - 1) : s[k] \notin Whitespace
             rest == trimStart(SubSeq(s, i, Len(s)))
         IN  <<SubSeq(s, 1, i - 1)>> \o splitWhitespace(rest)
    ELSE <<s>>

\* /^[a-z]+$/.test(word)
IsAlphabetic(word) ==
    Len(word) > 0 /\ \A i \in 1..Len(word) : IsLower(word[i])

KEYWORD_LIMIT == 20

\* keywords.slice(0, 20)
SliceKeywords(words) ==
    SubSeq(words, 1, IF Len(words) < KEYWORD_LIMIT THEN Len(words)
                     ELSE KEYWORD_LIMIT)

\* the list returned as it is, without the Set
Dedupe_KeepAll(words) == words

\* [...new Set(keywords)]: each value once, at its first position
RECURSIVE Dedupe(_)
Dedupe(words) ==
    IF words = <<>> THEN <<>>
    ELSE LET init == Dedupe(SubSeq(words, 1, Len(words) - 1))
             last == words[Len(words)]
         IN  IF \E i \in 1..Len(init) : init[i] = last THEN init
             ELSE Append(init, last)

extractKeywords(tk) ==
    LET text == toLowerCase(tk.summary \o <<" ">> \o tk.description)
        words == splitWhitespace(text)
        LongNoStop(word) == Len(word) > 3 /\ word \notin stopWords
        keywords == SliceKeywords(
                        SelectSeq(SelectSeq(words, LongNoStop), IsAlphabetic))
    IN  Dedupe(keywords)


----------------------------------------------------------------------------
(* Relevance scoring (context.ts, scoreFile).                              *)

\* path.split('/').pop() || '': the text after the last '/'
RECURSIVE LastSegment(_)
LastSegment(path) ==
    IF \E i \in 1..Len(path) : path[i] = "/"
    THEN LET i == CHOOSE j \in 1..Len(path) :
                      path[j] = "/" /\ \A k \in 1..(j - 1) : path[k] # "/"
         IN  LastSegment(SubSeq(path, i + 1, Len(path)))
    ELSE path

PATH_MATCH_SCORE == 10

FILENAME_MATCH_SCORE == 20

\* one round of the loop: score += 10 on a path match, += 20 on a filename
\* match
KeywordScore(path, keyword) ==
    LET lowerPath == toLowerCase(path)
        filename == toLowerCase(LastSegment(path))
    IN  (IF includes(lowerPath, keyword) THEN PATH_MATCH_SCORE ELSE 0)
        + (IF includes(filename, keyword) THEN FILENAME_MATCH_SCORE ELSE 0)

RECURSIVE scoreFile_NoPathMatch(_, _)
scoreFile_NoPathMatch(path, keywords) ==
    IF keywords = <<>> THEN 0
    ELSE scoreFile_NoPathMatch(path, SubSeq(keywords, 1, Len(keywords) - 1))
         + (IF includes(toLowerCase(LastSegment(path)),
                        keywords[Len(keywords)])
            THEN FILENAME_MATCH_SCORE ELSE 0)

\* let score = 0; for (const keyword of keywords) { ... } return score
RECURSIVE scoreFile(_, _)
scoreFile(path, keywords) ==
    IF keywords = <<>> THEN 0
    ELSE scoreFile(path, SubSeq(keywords, 1, Len(keywords) - 1))
         + KeywordScore(path, keywords[Len(keywords)])

----------------------------------------------------------------------------
(* Pre-submission validator (validation.ts, validateGeneratedCode).        *)

\* the alternatives of /\.(ts|tsx|js|jsx)$/
CodeExtensions ==
    { <<".","t","s">>, <<".","t","s","x">>, <<".","j","s">>,
      <<".","j","s","x">> }

IsCodeFile(fc) == \E e \in CodeExtensions : endsWith(fc.path, e)

\* (content.match(/c/g) || []).length
RECURSIVE CountChar(_, _)
CountChar(content, c) ==
    IF content = <<>> THEN 0
    ELSE (IF Head(content) = c THEN 1 ELSE 0) + CountChar(Tail(content), c)

S_tsconfig == <<"t","s","c","o","n","f","i","g">>

S_package == <<"p","a","c","k","a","g","e">>

\* the errors the syntax check pushes for one code file
SyntaxErrorsOf(fc) ==
    IF /\ endsWith(fc.path, <<".","t","s">>) \/ endsWith(fc.path, <<".","t","s","x">>)
       /\ ~ includes(fc.path, S_tsconfig)
       /\ ~ includes(fc.path, S_package)
    THEN (IF CountChar(fc.content, "{") # CountChar(fc.content, "}")
          THEN <<[file |-> fc.path, error |-> "Unmatched braces"]>> ELSE <<>>)
         \o (IF CountChar(fc.content, "(") # CountChar(fc.content, ")")
             THEN <<[file |-> fc.path, error |-> "Unmatched parentheses"]>>
             ELSE <<>>)
         \o (IF CountChar(fc.content, "[") # CountChar(fc.content, "]")
             THEN <<[file |-> fc.path, error |-> "Unmatched brackets"]>>
             ELSE <<>>)
    ELSE <<>>

RECURSIVE SyntaxErrors(_)
SyntaxErrors(codeFiles) ==
    IF codeFiles = <<>> THEN <<>>
    ELSE SyntaxErrorsOf(Head(codeFiles)) \o SyntaxErrors(Tail(codeFiles))

\* the environment of one validation: whether the temporary directory and
\* files can be written, whether `which tsc` / `which eslint` find a tool
ValidationEnvs == [fsOk : BOOLEAN, tsc : BOOLEAN, eslint : BOOLEAN]

validateGeneratedCode_ToolsRequired(changes, env) ==
    LET codeFiles == SelectSeq(changes, IsCodeFile)
        errors == SyntaxErrors(codeFiles)
                  \o (IF env.eslint THEN <<>>
                      ELSE <<[file |-> <<>>, error |-> "ESLint not available"]>>)
    IN  [success |-> Len(errors) = 0, errors |-> errors, warnings |-> <<>>]

\* projectRoot is process.cwd(), a non-empty string
validateGeneratedCode(changes, env) ==
    LET codeFiles == SelectSeq(changes, IsCodeFile)
        IsTs(fc) == endsWith(fc.path, <<".","t","s">>)
                        \/ endsWith(fc.path, <<".","t","s","x">>)
        hasTypeScript == \E i \in 1..Len(codeFiles) : IsTs(codeFiles[i])
        errors == SyntaxErrors(codeFiles)
        typeWarning ==
            IF hasTypeScript
            THEN <<IF env.tsc
                   THEN "Full type checking requires project context - skipped"
                   ELSE "TypeScript compiler not available - type check skipped">>
            ELSE <<>>
        lintWarning ==
            <<IF env.eslint
              THEN "Full linting requires project context - skipped"
              ELSE "ESLint not available - lint check skipped">>
    IN  IF Len(codeFiles) = 0
        THEN [success |-> TRUE, errors |-> <<>>,
              warnings |-> <<"No code files to validate">>]
        ELSE IF ~ env.fsOk
        THEN [success |-> FALSE,
              errors |-> <<[file |-> <<>>, error |-> "Validation error"]>>,
              warnings |-> <<>>]
        ELSE [success |-> Len(errors) = 0, errors |-> errors,
              warnings |-> typeWarning \o lintWarning]


----------------------------------------------------------------------------
(* Inputs of the guard: file-change lists over sample paths.               *)

P_lib_a_ts == <<"l","i","b","/","a",".","t","s">>

P_b_css == <<"b",".","c","s","s">>

P_github_w_md == <<".","g","i","t","h","u","b","/","w",".","m","d">>

P_GitHub_a_ts == <<".","G","i","t","H","u","b","/","a",".","t","s">>

P_up_a_ts == <<".",".","/","a",".","t","s">>

P_abs_a_ts == <<"/","a",".","t","s">>

P_a_py == <<"a",".","p","y">>

P_mysecrets_ts == <<"m","y","s","e","c","r","e","t","s",".","t","s">>

P_a_TS == <<"a",".","T","S">>

P_yarn_lock == <<"y","a","r","n",".","l","o","c","k">>

GuardPaths ==
    { P_lib_a_ts,
      P_b_css,
      P_github_w_md,
      P_GitHub_a_ts,
      P_up_a_ts,
      P_abs_a_ts,
      P_a_py,
      P_mysecrets_ts,
      P_a_TS,
      P_yarn_lock }

\* longest file-change list handed to the guard
MaxGuardLen == 4

C_x == <<"x">>

GuardLists ==
    UNION { [1..n -> {[path |-> p, content |-> C_x] : p \in GuardPaths}]
            : n \in 0..MaxGuardLen }

IdleGuard ==
    /\ gList = <<>>
    /\ gPc = "idle"
    /\ gResult = [allowed |-> FALSE, reason |-> NoValue, blockedFiles |-> <<>>]
    /\ gOutcome = NoValue

InitGuard ==
    /\ gList \in GuardLists
    /\ gPc = "start"
    /\ gResult = [allowed |-> FALSE, reason |-> NoValue, blockedFiles |-> <<>>]
    /\ gOutcome = NoValue

\* const guardResult = validateFileChanges(fileChanges)
ApplyValidate ==
    /\ gPc = "start"
    /\ gResult' = validateFileChanges(gList)
    /\ gPc' = "validated"
    /\ UNCHANGED <<gList, gOutcome, parseVars, kwVars, pipeVars, auxVars>>

\* guardFileChanges(fileChanges)
ApplyGuard ==
    /\ gPc = "validated"
    /\ gOutcome' = guardFileChanges(gList)
    /\ gPc' = "guarded"
    /\ UNCHANGED <<gList, gResult, parseVars, kwVars, pipeVars, auxVars>>

NextGuard == ApplyValidate \/ ApplyGuard

----------------------------------------------------------------------------
(* Inputs of the parser: texts assembled from sample lines.                *)

L_file_a_ts == <<"F","i","l","e",":"," ","a",".","t","s">>

L_file_b_md == <<"F","i","l","e",":","l","i","b","/","b",".","m","d"," "," ">>

L_file_lower_up == <<"f","i","l","e",":"," ",".",".","/","x",".","t","s">>

L_file_abs == <<"F","i","l","e",":"," ","/","e",".","t","s">>

L_file_py == <<"F","i","l","e",":"," ","c",".","p","y">>

L_file_blank == <<"F","i","l","e",":"," ">>

L_file_cr == <<"F","i","l","e",":"," ","d",".","t","s","\r">>

L_fence == <<Backquote,Backquote,Backquote>>

L_fence_ts == <<Backquote,Backquote,Backquote,"t","s">>

L_fence_hint == <<Backquote,Backquote,Backquote,"t","s",":","l","i","b","/","h",".","j","s">>

L_fence_indent == <<" "," ",Backquote,Backquote,Backquote,"j","s">>

L_plain == <<"x"," ","="," ","1">>

L_import == <<"i","m","p","o","r","t"," ","y">>

L_blank == <<" ">>

L_empty == <<>>

ParseSampleLines ==
    { L_file_a_ts,
      L_file_b_md,
      L_file_lower_up,
      L_file_abs,
      L_file_py,
      L_file_blank,
      L_file_cr,
      L_fence,
      L_fence_ts,
      L_fence_hint,
      L_fence_indent,
      L_plain,
      L_import,
      L_blank,
      L_empty }

\* most lines of an arbitrary generated text
MaxParseLines == 3

ArbitraryOutputs ==
    { join(ls) : ls \in UNION { [1..n -> ParseSampleLines]
                                : n \in 1..MaxParseLines } }

\* texts of two headed files, the headers legal or not
HeaderSampleLines ==
    { L_file_a_ts, L_file_b_md, L_file_lower_up, L_file_abs, L_file_py,
      L_fence_hint }

TwoFileOutputs ==
    { join(<<h1, c1, h2, c2>>) : h1 \in HeaderSampleLines,
                                 c1 \in {L_plain, L_import},
                                 h2 \in HeaderSampleLines,
                                 c2 \in {L_plain, L_import} }

S_FileHeader == <<"F","i","l","e",":">>

SegContentLines == { L_import, L_empty }

\* most content lines of one segment, most segments of one text
MaxSegLines == 2

MaxSegments == 2

\* the headers `File: a.ts` and `File:lib/b.md`
SegHeaders ==
    { [sep |-> <<" ">>, path |-> <<"a",".","t","s">>],
      [sep |-> <<>>, path |-> <<"l","i","b","/","b",".","m","d">>] }

SegmentDescs ==
    { [sep |-> h.sep, path |-> h.path, lines |-> ls] :
          h \in SegHeaders,
          ls \in UNION { [1..m -> SegContentLines] : m \in 1..MaxSegLines } }

SegmentLists == UNION { [1..k -> SegmentDescs] : k \in 1..MaxSegments }

\* the lines of a text made of `File: <path>` segments
RECURSIVE SegmentLines(_)
SegmentLines(segs) ==
    IF segs = <<>> THEN <<>>
    ELSE <<S_FileHeader \o Head(segs).sep \o Head(segs).path>>
         \o Head(segs).lines \o SegmentLines(Tail(segs))

InitParse ==
    /\ \/ pIn \in ArbitraryOutputs \cup TwoFileOutputs /\ pSegs = <<>>
       \/ \E segs \in SegmentLists :
              pIn = join(SegmentLines(segs)) /\ pSegs = segs
    /\ pPc = "start"
    /\ pCandidates = <<>>
    /\ pOut = <<>>

\* const fileChanges = parseAICodeOutput(generatedCode)
ApplyParse ==
    /\ pPc = "start"
    /\ pCandidates' = ParseCandidates(pIn)
    /\ pOut' = parseAICodeOutput(pIn)
    /\ pPc' = "parsed"
    /\ UNCHANGED <<pIn, pSegs, guardVars, kwVars, pipeVars, auxVars>>

IdleParse ==
    /\ pIn = <<>>
    /\ pSegs = <<>>
    /\ pPc = "idle"
    /\ pCandidates = <<>>
    /\ pOut = <<>>

NextParse == ApplyParse

----------------------------------------------------------------------------
(* Inputs of the keyword extractor: tickets assembled from tokens.         *)

\* the i-th of 26 distinct five-letter words
KwWord(i) == <<"w","o","r","d", LowerLetters[((i - 1) % 26) + 1]>>

T_the == <<"t","h","e">>

T_with == <<"w","i","t","h">>

T_abc == <<"a","b","c">>

T_x1yz == <<"x","1","y","z">>

T_parser_dot == <<"p","a","r","s","e","r",".">>

T_Null == <<"N","u","l","l">>

T_WORDA == <<"W","O","R","D","A">>

KwExtraTokens == { T_the, T_with, T_abc, T_x1yz, T_parser_dot, T_Null, T_WORDA }

\* most tokens of one ticket text (beyond the leading repeats)
MaxKwTokens == 24

KwPeriods == {1, 3, 21, 26}

KwLeads == {0, 2}

KwSeparators == { <<" ">>, <<" ","\n","\t">> }

\* `lead` copies of the first word, then n tokens: words that repeat with
\* the period, every second one replaced by the extra token (if any)
KwTokenList(n, period, lead, extra) ==
    [i \in 1..(lead + n) |->
        IF i <= lead THEN KwWord(1)
        ELSE IF extra # <<>> /\ (i - lead) % 2 = 0 THEN extra
        ELSE KwWord(((i - lead - 1) % period) + 1)]

RECURSIVE joinWith(_, _)
joinWith(tokens, sep) ==
    IF tokens = <<>> THEN <<>>
    ELSE IF Len(tokens) = 1 THEN tokens[1]
    ELSE tokens[1] \o sep \o joinWith(Tail(tokens), sep)

InitKw ==
    /\ \E n \in 0..MaxKwTokens, period \in KwPeriods, lead \in KwLeads,
          extra \in KwExtraTokens \cup {<<>>}, sep \in KwSeparators :
          \E cut \in {0, 1, lead + n} :
              /\ cut <= lead + n
              /\ kTokens = KwTokenList(n, period, lead, extra)
              /\ kTicket = [summary |-> joinWith(SubSeq(kTokens, 1, cut), sep),
                            description |->
                                joinWith(SubSeq(kTokens, cut + 1, lead + n), sep)]
    /\ kPc = "start"
    /\ kOut = <<>>
    /\ kRuns = 0

IdleKw ==
    /\ kTicket = [summary |-> <<>>, description |-> <<>>]
    /\ kTokens = <<>>
    /\ kPc = "idle"
    /\ kOut = <<>>
    /\ kRuns = 0

\* const keywords = extractKeywords(ticket)
ApplyExtract ==
    /\ kPc = "start"
    /\ kOut' = extractKeywords(kTicket)
    /\ kRuns' = 1
    /\ kPc' = "extracted"
    /\ UNCHANGED <<kTicket, kTokens, guardVars, parseVars, pipeVars, auxVars>>

\* a second call on the same ticket
ApplyExtractAgain ==
    /\ kPc = "extracted"
    /\ kRuns = 1
    /\ kOut' = extractKeywords(kTicket)
    /\ kRuns' = 2
    /\ UNCHANGED <<kTicket, kTokens, kPc, guardVars, parseVars, pipeVars, auxVars>>

NextKw == ApplyExtract \/ ApplyExtractAgain

----------------------------------------------------------------------------
(* Webhook pipeline (route.ts, POST) and the submission manager            *)
(* (context.ts, createPRFromAICode).                                       *)

O_single == <<"F","i","l","e",":"," ","l","i","b","/","f","i","x",".","t","s","\n","e","x","p","o","r","t"," ","c","o","n","s","t"," ","f","i","x","e","d"," ","="," ","t","r","u","e",";">>

O_unbalanced == <<"F","i","l","e",":"," ","a",".","t","s","\n","f","o","o","(">>

O_github == <<"F","i","l","e",":"," ",".","g","i","t","h","u","b","/","w",".","m","d","\n","x"," ","="," ","1">>

O_two == <<"F","i","l","e",":"," ","a",".","t","s","\n","f","(",")","\n","F","i","l","e",":"," ","l","i","b","/","b",".","m","d","\n","x"," ","="," ","1">>

O_four == <<"F","i","l","e",":"," ","a",".","t","s","\n","x","\n","F","i","l","e",":"," ","b",".","t","s","\n","x","\n","F","i","l","e",":"," ","c",".","t","s","\n","x","\n","F","i","l","e",":"," ","d",".","t","s","\n","x">>

O_blank == <<" ">>

O_untyped == <<"x"," ","="," ","1">>

\* texts the generation service may return
O_filtered == <<"F","i","l","e",":"," ","a",".","p","y","\n","x"," ","="," ","1">>

O_mixed == <<"F","i","l","e",":"," ","a",".","p","y","\n","x","\n","F","i","l","e",":"," ","l","i","b","/","b",".","t","s","\n","y">>

O_escaping == <<"F","i","l","e",":"," ",".",".","/","x",".","t","s","\n","x","\n","F","i","l","e",":"," ","/","e",".","t","s","\n","y","\n","F","i","l","e",":"," ","l","i","b","/","b",".","t","s","\n","z">>

O_three == <<"F","i","l","e",":"," ","a",".","t","s","\n","x","\n","F","i","l","e",":"," ","b",".","t","s","\n","y","\n","F","i","l","e",":"," ","c",".","m","d","\n","z">>

GeneratedOutputs ==
    { O_single, O_unbalanced, O_github, O_two, O_four, O_blank, O_untyped,
      O_filtered, O_mixed, O_escaping, O_three }

\* a field of the payload that is missing
Absent == "undefined"

FieldValues(v) == {Absent, "", v}

\* request bodies: unparsable JSON, a non-object, objects without issue or
\* fields, and objects whose three required fields are missing, empty or set
Payloads ==
    { [json |-> FALSE, object |-> FALSE, issue |-> Absent, fields |-> Absent,
       key |-> Absent, summary |-> Absent, description |-> Absent,
       priority |-> Absent],
      [json |-> TRUE, object |-> FALSE, issue |-> Absent, fields |-> Absent,
       key |-> Absent, summary |-> Absent, description |-> Absent,
       priority |-> Absent] }
    \cup
    [json : {TRUE}, object : {TRUE}, issue : {Absent, "string"},
     fields : {Absent}, key : {Absent}, summary : {Absent},
     description : {Absent}, priority : {Absent}]
    \cup
    [json : {TRUE}, object : {TRUE}, issue : {"object"},
     fields : {Absent, "string"}, key : {Absent, "BUG-1"}, summary : {Absent},
     description : {Absent}, priority : {Absent}]
    \cup
    [json : {TRUE}, object : {TRUE}, issue : {"object"}, fields : {"object"},
     key : FieldValues("BUG-1"),
     summary : FieldValues("Null pointer in parser"),
     description : FieldValues("TypeError: cannot read x"),
     priority : {Absent, "High"}]

\* JavaScript falsiness of an optional string
Falsy(v) == v = Absent \/ v = ""

isValidJiraPayload(p) ==
    /\ p.object
    /\ p.issue = "object"
    /\ p.fields = "object"

NoTicket == [key |-> Absent, summary |-> Absent, description |-> Absent,
             priority |-> Absent]

\* the conversion without the description check
convertToJiraTicket_NoDescription(p) ==
    IF p.issue = Absent THEN NoTicket
    ELSE IF Falsy(p.key) \/ p.fields = Absent \/ Falsy(p.summary)
    THEN NoTicket
    ELSE [key |-> p.key, summary |-> p.summary,
          description |-> p.description, priority |-> p.priority]

\* NoTicket stands for null
convertToJiraTicket(p) ==
    IF p.issue = Absent THEN NoTicket
    ELSE IF Falsy(p.key) \/ p.fields = Absent \/ Falsy(p.summary)
            \/ Falsy(p.description)
    THEN NoTicket
    ELSE [key |-> p.key, summary |-> p.summary,
          description |-> p.description, priority |-> p.priority]

\* one audit log entry; the metadata fields an event does not carry are empty
AuditEvent(eventType, status, reason, blockedFiles, failedEventType) ==
    [eventType |-> eventType, status |-> status, reason |-> reason,
     blockedFiles |-> blockedFiles, failedEventType |-> failedEventType]

logAuditEvent(eventType) == AuditEvent(eventType, "success", Absent, <<>>, Absent)

logSafetyGuardBlocked(reason, blockedFiles) ==
    AuditEvent("safety_guard_blocked", "failed", reason, blockedFiles, Absent)

logOperationFailed(failedEventType) ==
    AuditEvent("operation_failed", "failed", Absent, <<>>, failedEventType)

\* one request to a collaborator: the source-control service ("scm") or the
\* generation service ("ai"); draft is the draft flag of the request body
Call(svc, op, path, draft, ok) ==
    [svc |-> svc, op |-> op, path |-> path, draft |-> draft, ok |-> ok]

\* the operations that change the repository or a pull request
MutatingOps == {"createBranch", "putFile", "createPullRequest",
                "markPRReadyForReview", "addPRComment"}

NoResponse ==
    [status |-> 0, error |-> Absent, reason |-> Absent, blockedFiles |-> <<>>,
     validationErrors |-> <<>>, token |-> Absent, pr_url |-> Absent,
     pr_number |-> 0, pr_error |-> Absent, ci_status |-> Absent]

ErrorResponse(status, error) ==
    [NoResponse EXCEPT !.status = status, !.error = error]

NoGuardResult == [allowed |-> FALSE, reason |-> Absent, blockedFiles |-> <<>>]

NoValidation == [success |-> FALSE, errors |-> <<>>, warnings |-> <<>>]

Init ==
    /\ pc = "start"
    /\ payload \in Payloads
    /\ ticket = NoTicket
    /\ contextCount = 0
    /\ generatedCode = <<>>
    /\ fileChanges = <<>>
    /\ guardResult = NoGuardResult
    /\ validation = NoValidation
    /\ submitChanges = <<>>
    /\ writeIndex = 0
    /\ branchFiles = <<>>
    /\ prState = "none"
    /\ prNumber = 0
    /\ prError = Absent
    /\ ciResult = Absent
    /\ ciStatus = Absent
    /\ audit = <<>>
    /\ calls = <<>>
    /\ response = NoResponse

IdlePipeline ==
    /\ pc = "idle"
    /\ payload = CHOOSE p \in Payloads : ~ p.json
    /\ ticket = NoTicket
    /\ contextCount = 0
    /\ generatedCode = <<>>
    /\ fileChanges = <<>>
    /\ guardResult = NoGuardResult
    /\ validation = NoValidation
    /\ submitChanges = <<>>
    /\ writeIndex = 0
    /\ branchFiles = <<>>
    /\ prState = "none"
    /\ prNumber = 0
    /\ prError = Absent
    /\ ciResult = Absent
    /\ ciStatus = Absent
    /\ audit = <<>>
    /\ calls = <<>>
    /\ response = NoResponse

\* return NextResponse.json(...) and the end of the handler
Respond(r) == response' = r /\ pc' = "done"

\* request.json(), isValidJiraPayload, convertToJiraTicket and
\* logJiraTicketReceived
ReceiveWebhook ==
    /\ pc = "start"
    /\ IF ~ payload.json
       THEN /\ Respond(ErrorResponse(400, "Invalid JSON payload"))
            /\ UNCHANGED <<ticket, audit>>
       ELSE IF ~ isValidJiraPayload(payload)
       THEN /\ Respond(ErrorResponse(400, "Invalid webhook payload structure"))
            /\ UNCHANGED <<ticket, audit>>
       ELSE IF convertToJiraTicket(payload) = NoTicket
       THEN /\ Respond(ErrorResponse(400, "Missing required fields in payload"))
            /\ UNCHANGED <<ticket, audit>>
       ELSE /\ ticket' = convertToJiraTicket(payload)
            /\ audit' = Append(audit, logAuditEvent("jira_ticket_received"))
            /\ pc' = "context"
            /\ UNCHANGED response
    /\ UNCHANGED <<auxVars, guardVars, parseVars, kwVars, payload, contextCount, generatedCode, fileChanges,
                   guardResult, validation, submitChanges, writeIndex,
                   branchFiles, prState, prNumber, prError, ciResult,
                   ciStatus, calls>>

\* most files getCodeContext returns: .slice(0, 3)
MAX_CONTEXT_FILES == 3

\* codeContext = await getCodeContext(ticket), logCodeContextFetched,
\* buildPrompt and logPromptSentToAI; getCodeContext returns [] when the
\* tree request fails
FetchContext ==
    /\ pc = "context"
    /\ \E treeOk \in BOOLEAN, n \in 0..MAX_CONTEXT_FILES :
          /\ treeOk \/ n = 0
          /\ contextCount' = n
          /\ calls' = Append(calls, Call("scm", "getTree", <<>>, Absent, treeOk))
    /\ audit' = audit \o << logAuditEvent("code_context_fetched"),
                            logAuditEvent("prompt_sent_to_ai") >>
    /\ pc' = "generating"
    /\ UNCHANGED <<auxVars, guardVars, parseVars, kwVars, payload, ticket, generatedCode, fileChanges, guardResult,
                   validation, submitChanges, writeIndex, branchFiles,
                   prState, prNumber, prError, ciResult, ciStatus, response>>

\* the guard block without its early return
GuardVerdict_NoReturn(changes) == "passed"

\* the outcome of the guard block of the handler for a parsed list:
\* "blocked" (validateFileChanges disallows), "failed" (guardFileChanges
\* throws) or "passed"
GuardVerdict(changes) ==
    IF ~ validateFileChanges(changes).allowed THEN "blocked"
    ELSE IF guardFileChanges(changes) = "throws" THEN "failed"
    ELSE "passed"

\* generatedCode = await generateCode(prompt) fails
GenerationFails ==
    /\ pc = "generating"
    /\ calls' = Append(calls, Call("ai", "generateCode", <<>>, Absent, FALSE))
    /\ audit' = Append(audit, logOperationFailed("ai_output_received"))
    /\ Respond(ErrorResponse(500, "Failed to generate code"))
    /\ UNCHANGED <<auxVars, guardVars, parseVars, kwVars, payload, ticket, contextCount, generatedCode, fileChanges,
                   guardResult, validation, submitChanges, writeIndex,
                   branchFiles, prState, prNumber, prError, ciResult,
                   ciStatus>>

\* generateCode returns; logAIOutputReceived, parseAICodeOutput,
\* validateFileChanges and guardFileChanges
GenerationReturns ==
    /\ pc = "generating"
    /\ \E text \in GeneratedOutputs :
          LET parsed == parseAICodeOutput(text)
              result == validateFileChanges(parsed)
              verdict == GuardVerdict(parsed)
              received == Append(audit, logAuditEvent("ai_output_received"))
          IN  /\ generatedCode' = text
              /\ fileChanges' = parsed
              /\ guardResult' = result
              /\ IF verdict = "blocked"
                 THEN /\ audit' = Append(received,
                              logSafetyGuardBlocked(result.reason,
                                                    result.blockedFiles))
                      /\ Respond([ErrorResponse(403, "Safety guard blocked")
                                    EXCEPT !.reason = result.reason,
                                           !.blockedFiles = result.blockedFiles])
                 ELSE IF verdict = "failed"
                 THEN /\ audit' = Append(received,
                              logSafetyGuardBlocked("Safety guard blocked", <<>>))
                      /\ Respond(ErrorResponse(403,
                                     "Safety guard validation failed"))
                 ELSE /\ audit' = received
                      /\ pc' = "validating"
                      /\ UNCHANGED response
    /\ calls' = Append(calls, Call("ai", "generateCode", <<>>, Absent, TRUE))
    /\ UNCHANGED <<auxVars, guardVars, parseVars, kwVars, payload, ticket, contextCount, validation, submitChanges,
                   writeIndex, branchFiles, prState, prNumber, prError,
                   ciResult, ciStatus>>

ValidationReturns_NeverBlocks ==
    /\ pc = "validating"
    /\ \E env \in ValidationEnvs :
          validation' = validateGeneratedCode(fileChanges, env)
    /\ pc' = "submit"
    /\ UNCHANGED <<auxVars, guardVars, parseVars, kwVars, payload, ticket,
                   contextCount, generatedCode, fileChanges, guardResult,
                   submitChanges, writeIndex, branchFiles, prState, prNumber,
                   prError, ciResult, ciStatus, calls, audit, response>>

\* validationResult = await validateGeneratedCode(fileChanges, process.cwd())
ValidationReturns ==
    /\ pc = "validating"
    /\ \E env \in ValidationEnvs :
          validation' = validateGeneratedCode(fileChanges, env)
    /\ IF ~ validation'.success
       THEN /\ audit' = Append(audit, logOperationFailed("commit_created"))
            /\ Respond([ErrorResponse(400, "Code validation failed")
                          EXCEPT !.validationErrors = validation'.errors])
       ELSE /\ pc' = "submit"
            /\ UNCHANGED <<audit, response>>
    /\ UNCHANGED <<auxVars, guardVars, parseVars, kwVars, payload, ticket, contextCount, generatedCode, fileChanges,
                   guardResult, submitChanges, writeIndex, branchFiles,
                   prState, prNumber, prError, ciResult, ciStatus, calls>>

\* prUrl = prResult.prUrl, assigned together with prNumber: the html_url of
\* the pull request of that number, unset while no pull request was opened
PullRequestUrl(number) ==
    IF number = 0 THEN Absent ELSE "pull/" \o ToString(number)

\* the final NextResponse.json({status: 'ai_generated', ...})
SuccessResponse(number, error, ci) ==
    [NoResponse EXCEPT !.status = 200, !.token = "ai_generated",
                       !.pr_url = PullRequestUrl(number),
                       !.pr_number = number, !.pr_error = error,
                       !.ci_status = ci]

SubmissionFails_Aborts(message) ==
    /\ audit' = audit
    /\ prError' = message
    /\ Respond(ErrorResponse(500, "Internal server error"))

\* createPRFromAICode throws: the handler's catch logs the failure, sets
\* prError and falls through to the final response
SubmissionFails(message) ==
    /\ audit' = Append(audit, logOperationFailed("pull_request_created"))
    /\ prError' = message
    /\ Respond(SuccessResponse(0, message, Absent))

SubmitBranch_NoEmptyTest ==
    /\ pc = "submit"
    /\ LET parsed == parseAICodeOutput(generatedCode)
       IN  \E outcome \in {"created", "exists", "refFailed", "failed"} :
              /\ calls' =
                   calls
                   \o <<Call("scm", "getRef", <<>>, Absent,
                             outcome # "refFailed")>>
                   \o (IF outcome = "refFailed" THEN <<>>
                       ELSE <<Call("scm", "createBranch", <<>>, Absent,
                                   outcome = "created")>>)
              /\ IF outcome \in {"created", "exists"}
                 THEN /\ submitChanges' = parsed
                      /\ writeIndex' = 1
                      /\ pc' = IF Len(parsed) = 0 THEN "openpr" ELSE "commit"
                      /\ UNCHANGED <<audit, prError, response>>
                 ELSE /\ SubmissionFails("Failed to create branch")
                      /\ UNCHANGED <<submitChanges, writeIndex>>
    /\ UNCHANGED <<auxVars, guardVars, parseVars, kwVars, payload, ticket, contextCount, generatedCode, fileChanges,
                   guardResult, validation, branchFiles, prState, prNumber,
                   ciResult, ciStatus>>

SubmitBranch_Unfiltered ==
    /\ pc = "submit"
    /\ LET parsed == ParseCandidates(generatedCode)
       IN  IF Len(parsed) = 0
           THEN /\ SubmissionFails("No valid file changes found in AI output")
                /\ UNCHANGED <<submitChanges, writeIndex, calls>>
           ELSE \E outcome \in {"created", "exists", "refFailed", "failed"} :
                  /\ calls' =
                       calls
                       \o <<Call("scm", "getRef", <<>>, Absent,
                                 outcome # "refFailed")>>
                       \o (IF outcome = "refFailed" THEN <<>>
                           ELSE <<Call("scm", "createBranch", <<>>, Absent,
                                       outcome = "created")>>)
                  /\ IF outcome \in {"created", "exists"}
                     THEN /\ submitChanges' = parsed
                          /\ writeIndex' = 1
                          /\ pc' = "commit"
                          /\ UNCHANGED <<audit, prError, response>>
                     ELSE /\ SubmissionFails("Failed to create branch")
                          /\ UNCHANGED <<submitChanges, writeIndex>>
    /\ UNCHANGED <<auxVars, guardVars, parseVars, kwVars, payload, ticket, contextCount, generatedCode, fileChanges,
                   guardResult, validation, branchFiles, prState, prNumber,
                   ciResult, ciStatus>>

\* createPRFromAICode up to createBranch: parse the output again, refuse an
\* empty list, read the default branch ref, create the feature branch
\* (422 with an existing ref counts as created)
SubmitBranch ==
    /\ pc = "submit"
    /\ LET parsed == parseAICodeOutput(generatedCode)
       IN  IF Len(parsed) = 0
           THEN /\ SubmissionFails("No valid file changes found in AI output")
                /\ UNCHANGED <<submitChanges, writeIndex, calls>>
           ELSE \E outcome \in {"created", "exists", "refFailed", "failed"} :
                  /\ calls' =
                       calls
                       \o <<Call("scm", "getRef", <<>>, Absent,
                                 outcome # "refFailed")>>
                       \o (IF outcome = "refFailed" THEN <<>>
                           ELSE <<Call("scm", "createBranch", <<>>, Absent,
                                       outcome = "created")>>)
                  /\ IF outcome \in {"created", "exists"}
                     THEN /\ submitChanges' = parsed
                          /\ writeIndex' = 1
                          /\ pc' = "commit"
                          /\ UNCHANGED <<audit, prError, response>>
                     ELSE /\ SubmissionFails("Failed to create branch")
                          /\ UNCHANGED <<submitChanges, writeIndex>>
    /\ UNCHANGED <<auxVars, guardVars, parseVars, kwVars, payload, ticket, contextCount, generatedCode, fileChanges,
                   guardResult, validation, branchFiles, prState, prNumber,
                   ciResult, ciStatus>>

\* a commit loop that skips a file whose write failed and goes on
SubmitFile_SkipsFailedWrite ==
    /\ pc = "commit"
    /\ writeIndex <= Len(submitChanges)
    /\ \E ok \in BOOLEAN :
          /\ calls' = Append(calls, Call("scm", "putFile",
                                         submitChanges[writeIndex].path,
                                         Absent, ok))
          /\ branchFiles' = IF ok
                            THEN Append(branchFiles,
                                        submitChanges[writeIndex].path)
                            ELSE branchFiles
          /\ writeIndex' = writeIndex + 1
          /\ pc' = IF writeIndex = Len(submitChanges) THEN "openpr"
                   ELSE "commit"
          /\ UNCHANGED <<audit, prError, response>>
    /\ UNCHANGED <<auxVars, guardVars, parseVars, kwVars, payload, ticket, contextCount, generatedCode, fileChanges,
                   guardResult, validation, submitChanges, prState, prNumber,
                   ciResult, ciStatus>>

\* one iteration of commitChanges: createOrUpdateFile(branch, fileChange)
SubmitFile ==
    /\ pc = "commit"
    /\ writeIndex <= Len(submitChanges)
    /\ \E ok \in BOOLEAN :
          /\ calls' = Append(calls, Call("scm", "putFile",
                                         submitChanges[writeIndex].path,
                                         Absent, ok))
          /\ IF ok
             THEN /\ branchFiles' = Append(branchFiles,
                                           submitChanges[writeIndex].path)
                  /\ writeIndex' = writeIndex + 1
                  /\ pc' = IF writeIndex = Len(submitChanges) THEN "openpr"
                           ELSE "commit"
                  /\ UNCHANGED <<audit, prError, response>>
             ELSE /\ SubmissionFails("Failed to update file")
                  /\ UNCHANGED <<branchFiles, writeIndex>>
    /\ UNCHANGED <<auxVars, guardVars, parseVars, kwVars, payload, ticket, contextCount, generatedCode, fileChanges,
                   guardResult, validation, submitChanges, prState, prNumber,
                   ciResult, ciStatus>>

\* the draft field of the body createPullRequest posts: the body holds
\* title, body, head and base only
PullRequestDraftField == Absent

\* pull-request numbers the service may assign
PullRequestNumbers == {1, 7}

\* createPullRequest and logPullRequestCreated; the service opens a draft
\* only when the request says draft: true
SubmitPullRequest ==
    /\ pc = "openpr"
    /\ \E ok \in BOOLEAN :
          /\ calls' = Append(calls, Call("scm", "createPullRequest", <<>>,
                                         PullRequestDraftField, ok))
          /\ IF ok
             THEN /\ prState' = IF PullRequestDraftField = "true" THEN "draft"
                                ELSE "ready"
                  /\ prNumber' \in PullRequestNumbers
                  /\ audit' = Append(audit, logAuditEvent("pull_request_created"))
                  /\ pc' = "ci"
                  /\ UNCHANGED <<prError, response>>
             ELSE /\ SubmissionFails("Failed to create pull request")
                  /\ UNCHANGED <<prState, prNumber>>
    /\ UNCHANGED <<auxVars, guardVars, parseVars, kwVars, payload, ticket, contextCount, generatedCode, fileChanges,
                   guardResult, validation, submitChanges, writeIndex,
                   branchFiles, ciResult, ciStatus>>

\* ciResult = await waitForCIChecks(prNumber, 60000); a throw of the call
\* (before its loop, which catches its own errors) is caught as ciStatus
\* 'error'
CIReturns ==
    /\ pc = "ci"
    /\ \E r \in {"success", "failure", "pending", "throws"} :
          IF r = "throws"
          THEN /\ ciStatus' = "error"
               /\ Respond(SuccessResponse(prNumber, prError, "error"))
               /\ UNCHANGED <<ciResult, calls>>
          ELSE /\ ciResult' = r
               /\ pc' = IF r = "success" THEN "promote" ELSE "comment"
               /\ calls' = Append(calls, Call("scm", "getStatus", <<>>,
                                             Absent, TRUE))
               /\ UNCHANGED <<ciStatus, response>>
    /\ UNCHANGED <<auxVars, guardVars, parseVars, kwVars, payload, ticket, contextCount, generatedCode, fileChanges,
                   guardResult, validation, submitChanges, writeIndex,
                   branchFiles, prState, prNumber, prError, audit>>

MarkReady_Propagates ==
    /\ pc = "promote"
    /\ \E ok \in BOOLEAN :
          /\ calls' = Append(calls, Call("scm", "markPRReadyForReview", <<>>,
                                         "false", ok))
          /\ IF ok
             THEN /\ prState' = "ready"
                  /\ pc' = "comment"
                  /\ UNCHANGED <<ciStatus, response, prError>>
             ELSE /\ prError' = "Failed to mark PR ready"
                  /\ Respond(SuccessResponse(prNumber, prError', Absent))
                  /\ UNCHANGED <<prState, ciStatus>>
    /\ UNCHANGED <<auxVars, guardVars, parseVars, kwVars, payload, ticket, contextCount, generatedCode, fileChanges,
                   guardResult, validation, submitChanges, writeIndex,
                   branchFiles, prNumber, ciResult, audit>>

\* await markPRReadyForReview(prNumber); a throw is caught as ciStatus 'error'
MarkReady ==
    /\ pc = "promote"
    /\ \E ok \in BOOLEAN :
          /\ calls' = Append(calls, Call("scm", "markPRReadyForReview", <<>>,
                                         "false", ok))
          /\ IF ok
             THEN /\ prState' = "ready"
                  /\ pc' = "comment"
                  /\ UNCHANGED <<ciStatus, response>>
             ELSE /\ ciStatus' = "error"
                  /\ Respond(SuccessResponse(prNumber, prError, "error"))
                  /\ UNCHANGED prState
    /\ UNCHANGED <<auxVars, guardVars, parseVars, kwVars, payload, ticket, contextCount, generatedCode, fileChanges,
                   guardResult, validation, submitChanges, writeIndex,
                   branchFiles, prNumber, prError, ciResult, audit>>

\* await addPRComment(prNumber, ...), ciStatus and the final response
PostComment ==
    /\ pc = "comment"
    /\ \E ok \in BOOLEAN :
          /\ calls' = Append(calls, Call("scm", "addPRComment", <<>>, Absent, ok))
          /\ ciStatus' = IF ok THEN ciResult ELSE "error"
          /\ Respond(SuccessResponse(prNumber, prError, ciStatus'))
    /\ UNCHANGED <<auxVars, guardVars, parseVars, kwVars, payload, ticket, contextCount, generatedCode, fileChanges,
                   guardResult, validation, submitChanges, writeIndex,
                   branchFiles, prState, prNumber, prError, ciResult, audit>>

Next ==
    \/ ReceiveWebhook
    \/ FetchContext
    \/ GenerationFails
    \/ GenerationReturns
    \/ ValidationReturns
    \/ SubmitBranch
    \/ SubmitFile
    \/ SubmitPullRequest
    \/ CIReturns
    \/ MarkReady
    \/ PostComment

----------------------------------------------------------------------------
(* Inputs and steps of the relevance scorer.                               *)

F_lib_parser_ts == <<"l","i","b","/","p","a","r","s","e","r",".","t","s">>

F_Parser_index_ts ==
    <<"s","r","c","/","P","a","r","s","e","r","/","i","n","d","e","x",".","t","s">>

F_PARSER_tsx == <<"P","A","R","S","E","R",".","t","s","x">>

F_auth_dir == <<"l","i","b","/","a","u","t","h","/">>

F_a_ts == <<"a",".","t","s">>

F_index_parser ==
    <<"i","n","d","e","x","/","l","i","b","/","p","a","r","s","e","r","s",".","j","s">>

ScorePaths ==
    { F_lib_parser_ts, F_Parser_index_ts, F_PARSER_tsx, F_auth_dir, F_a_ts,
      F_index_parser }

K_parser == <<"p","a","r","s","e","r">>

K_index == <<"i","n","d","e","x">>

K_auth == <<"a","u","t","h">>

K_lib == <<"l","i","b">>

K_Parser == <<"P","a","r","s","e","r">>

ScoreKeywords == { K_parser, K_index, K_auth, K_lib, K_Parser }

\* most keywords of one scoring call (before the added one)
MaxScoreKeywords == 2

InitScore ==
    /\ sPath \in ScorePaths
    /\ sKeywords \in UNION { [1..n -> ScoreKeywords]
                              : n \in 0..MaxScoreKeywords }
    /\ sExtra \in ScoreKeywords
    /\ sPc = "start"
    /\ sScore = 0
    /\ sScoreMore = 0

IdleScore ==
    /\ sPath = <<>>
    /\ sKeywords = <<>>
    /\ sExtra = <<>>
    /\ sPc = "idle"
    /\ sScore = 0
    /\ sScoreMore = 0

\* score: scoreFile(file.path, keywords)
ApplyScore ==
    /\ sPc = "start"
    /\ sScore' = scoreFile(sPath, sKeywords)
    /\ sPc' = "scored"
    /\ UNCHANGED <<sPath, sKeywords, sExtra, sScoreMore,
                   valVars, ciVars, ctxVars, auditVars, extVars, guardVars, parseVars, kwVars,
                   pipeVars>>

\* the same path scored against the keywords and one more
ApplyScoreMore ==
    /\ sPc = "scored"
    /\ sScoreMore' = scoreFile(sPath, Append(sKeywords, sExtra))
    /\ sPc' = "rescored"
    /\ UNCHANGED <<sPath, sKeywords, sExtra, sScore,
                   valVars, ciVars, ctxVars, auditVars, extVars, guardVars, parseVars, kwVars,
                   pipeVars>>

NextScore == ApplyScore \/ ApplyScoreMore

----------------------------------------------------------------------------
(* Inputs and steps of the pre-submission validator.                       *)

V_c_js == <<"c",".","j","s">>

V_d_jsx == <<"l","i","b","/","d",".","j","s","x">>

V_b_tsx == <<"b",".","t","s","x">>

V_e_md == <<"e",".","m","d">>

V_package_ts == <<"l","i","b","/","p","a","c","k","a","g","e",".","t","s">>

ValPaths == { P_lib_a_ts, V_b_tsx, V_c_js, V_d_jsx, V_e_md, V_package_ts }

ValContents ==
    { <<"f","(",")"," ","{","}">>, <<"f","(">>, <<"{","[","}">>, <<"x">> }

\* most files of one validated list
MaxValFiles == 2

ValLists ==
    UNION { [1..n -> [path : ValPaths, content : ValContents]]
            : n \in 0..MaxValFiles }

InitVal ==
    /\ vChanges \in ValLists
    /\ vEnv \in ValidationEnvs
    /\ vPc = "start"
    /\ vResult = [success |-> FALSE, errors |-> <<>>, warnings |-> <<>>]

IdleVal ==
    /\ vChanges = <<>>
    /\ vEnv = [fsOk |-> TRUE, tsc |-> TRUE, eslint |-> TRUE]
    /\ vPc = "idle"
    /\ vResult = [success |-> FALSE, errors |-> <<>>, warnings |-> <<>>]

\* const validationResult = await validateGeneratedCode(fileChanges, cwd)
ApplyValidation ==
    /\ vPc = "start"
    /\ vResult' = validateGeneratedCode(vChanges, vEnv)
    /\ vPc' = "validated"
    /\ UNCHANGED <<vChanges, vEnv, scoreVars, ciVars, ctxVars, auditVars,
                   extVars, guardVars, parseVars, kwVars,
                   pipeVars>>

NextVal == ApplyValidation

----------------------------------------------------------------------------
(* CI reconciliation loop (audit.ts, the lib/ci-checker part:              *)
(* waitForCIChecks). Time is in milliseconds since startTime and moves in  *)
(* halves of the poll interval.                                            *)

\* pollInterval: number = 10000
POLL_INTERVAL == 10000

\* waitForCIChecks(prNumber, 60000)
ROUTE_MAX_WAIT == 60000

HalfInterval == POLL_INTERVAL \div 2

\* maxWaitTime: the handler's value and one that is no multiple of the
\* interval
WaitTimes == { ROUTE_MAX_WAIT, 25000 }

\* the time one poll (its three requests) may take
PollLatencies == { 0, HalfInterval }

\* how a request ends: an OK response, a non-OK response, a rejected fetch
FetchResults == { "ok", "notOk", "throws" }

\* the combined commit status of the head commit
CommitStates == { "pending", "success", "failure", "error" }

NoConclusion == "null"

CheckRun(status, conclusion) == [status |-> status, conclusion |-> conclusion]

RunningCheck == CheckRun("in_progress", NoConclusion)

Conclusions == { "success", "failure", "cancelled" }

\* most check runs of the head commit
MaxCheckRuns == 2

allCompleted(checkRuns) ==
    \A i \in 1..Len(checkRuns) : checkRuns[i].status = "completed"

allPassed(checkRuns) ==
    \A i \in 1..Len(checkRuns) :
        checkRuns[i].status = "completed" /\ checkRuns[i].conclusion = "success"

anyFailed(checkRuns) ==
    \E i \in 1..Len(checkRuns) :
        checkRuns[i].status = "completed" /\ checkRuns[i].conclusion = "failure"

Returns(status) == [kind |-> "return", status |-> status]

\* the catch block: log, wait one interval, poll again
Caught == [kind |-> "caught", status |-> Absent]

\* no verdict: wait one interval, poll again
Undecided == [kind |-> "undecided", status |-> Absent]

PollOutcome_EmptyPasses(pr, status, checks, state, checkRuns) ==
    IF pr # "ok" THEN Caught
    ELSE IF status = "throws" THEN Caught
    ELSE IF status = "ok" /\ state = "success" THEN Returns("success")
    ELSE IF status = "ok" /\ state \in {"failure", "error"}
    THEN Returns("failure")
    ELSE IF checks = "throws" THEN Caught
    ELSE IF checks = "ok" /\ allCompleted(checkRuns)
    THEN IF allPassed(checkRuns) THEN Returns("success")
         ELSE IF anyFailed(checkRuns) THEN Returns("failure")
         ELSE Undecided
    ELSE Undecided

PollOutcome_Escalates(pr, status, checks, state, checkRuns) ==
    IF pr # "ok" \/ status = "throws" \/ checks = "throws"
    THEN Returns("error")
    ELSE IF allCompleted(checkRuns) /\ allPassed(checkRuns) /\ Len(checkRuns) > 0
    THEN Returns("success")
    ELSE Undecided

\* one round of the while loop up to its wait: the pull request, the
\* combined status, the check runs
PollOutcome(pr, status, checks, state, checkRuns) ==
    IF pr # "ok" THEN Caught
    ELSE IF status = "throws" THEN Caught
    ELSE IF status = "ok" /\ state = "success" THEN Returns("success")
    ELSE IF status = "ok" /\ state \in {"failure", "error"}
    THEN Returns("failure")
    ELSE IF checks = "throws" THEN Caught
    ELSE IF checks = "ok" /\ Len(checkRuns) > 0 /\ allCompleted(checkRuns)
    THEN IF allPassed(checkRuns) THEN Returns("success")
         ELSE IF anyFailed(checkRuns) THEN Returns("failure")
         ELSE Undecided
    ELSE Undecided

NoTime == -1

\* the call starts with GITHUB_OWNER, GITHUB_REPO and GITHUB_TOKEN set, as
\* they are when createPullRequest has just succeeded
InitCI ==
    /\ wMaxWait \in WaitTimes
    /\ wNow = 0
    /\ wPc = "check"
    /\ wSleep = 0
    /\ wState \in CommitStates
    /\ wRuns \in UNION { [1..n -> {RunningCheck}
                                   \cup { CheckRun("completed", c)
                                          : c \in Conclusions }]
                          : n \in 0..MaxCheckRuns }
    /\ wResult = Absent
    /\ wReturnedAt = NoTime
    /\ wPassedAt = IF Len(wRuns) > 0 /\ allPassed(wRuns) THEN 0 ELSE NoTime
    /\ wClean = TRUE
    /\ wLastPoll = <<>>

IdleCI ==
    /\ wMaxWait = 0
    /\ wNow = 0
    /\ wPc = "idle"
    /\ wSleep = 0
    /\ wState = "pending"
    /\ wRuns = <<>>
    /\ wResult = Absent
    /\ wReturnedAt = NoTime
    /\ wPassedAt = NoTime
    /\ wClean = TRUE
    /\ wLastPoll = <<>>

LoopCheck_KeepsPolling ==
    /\ wPc = "check"
    /\ IF wNow < wMaxWait
       THEN /\ wPc' = "poll"
            /\ UNCHANGED <<wResult, wReturnedAt>>
       ELSE /\ wPc' = "poll"
            /\ wResult' = "pending"
            /\ wReturnedAt' = wNow
    /\ UNCHANGED <<wMaxWait, wNow, wSleep, wState, wRuns, wPassedAt, wClean,
                   wLastPoll, scoreVars, valVars,
                   ctxVars, auditVars, extVars, guardVars, parseVars, kwVars,
                   pipeVars>>

\* while (Date.now() - startTime < maxWaitTime) ... return pending/timeout
LoopCheck ==
    /\ wPc = "check"
    /\ IF wNow < wMaxWait
       THEN /\ wPc' = "poll"
            /\ UNCHANGED <<wResult, wReturnedAt>>
       ELSE /\ wPc' = "returned"
            /\ wResult' = "pending"
            /\ wReturnedAt' = wNow
    /\ UNCHANGED <<wMaxWait, wNow, wSleep, wState, wRuns, wPassedAt, wClean,
                   wLastPoll, scoreVars, valVars,
                   ctxVars, auditVars, extVars, guardVars, parseVars, kwVars,
                   pipeVars>>

\* the body of the loop: three requests, then a verdict or a wait
Poll ==
    /\ wPc = "poll"
    /\ \E pr \in FetchResults, status \in FetchResults, checks \in FetchResults,
          latency \in PollLatencies :
          LET outcome == PollOutcome(pr, status, checks, wState, wRuns)
          IN  /\ wNow' = wNow + latency
              /\ wLastPoll' = <<pr, status, checks>>
              /\ wClean' = (wClean /\ latency = 0 /\ pr = "ok"
                                   /\ status = "ok" /\ checks = "ok")
              /\ IF outcome.kind = "return"
                 THEN /\ wPc' = "returned"
                      /\ wResult' = outcome.status
                      /\ wReturnedAt' = wNow'
                      /\ UNCHANGED wSleep
                 ELSE /\ wPc' = "sleep"
                      /\ wSleep' = POLL_INTERVAL
                      /\ UNCHANGED <<wResult, wReturnedAt>>
    /\ UNCHANGED <<wMaxWait, wState, wRuns, wPassedAt, scoreVars, valVars,
                   ctxVars, auditVars, extVars, guardVars, parseVars, kwVars,
                   pipeVars>>

\* await new Promise(resolve => setTimeout(resolve, pollInterval)), half an
\* interval at a time
Sleep ==
    /\ wPc = "sleep"
    /\ wNow' = wNow + HalfInterval
    /\ wSleep' = wSleep - HalfInterval
    /\ wPc' = IF wSleep' = 0 THEN "check" ELSE "sleep"
    /\ UNCHANGED <<wMaxWait, wState, wRuns, wResult, wReturnedAt, wPassedAt,
                   wClean, wLastPoll, scoreVars, valVars,
                   ctxVars, auditVars, extVars, guardVars, parseVars, kwVars,
                   pipeVars>>

\* the CI service: a running check completes
CheckCompletes ==
    /\ wPc \in {"check", "poll", "sleep"}
    /\ \E i \in 1..Len(wRuns), c \in Conclusions :
          /\ wRuns[i] = RunningCheck
          /\ wRuns' = [wRuns EXCEPT ![i] = CheckRun("completed", c)]
    /\ wPassedAt' = IF allPassed(wRuns') THEN wNow ELSE wPassedAt
    /\ UNCHANGED <<wMaxWait, wNow, wPc, wSleep, wState, wResult, wReturnedAt,
                   wClean, wLastPoll, scoreVars, valVars,
                   ctxVars, auditVars, extVars, guardVars, parseVars, kwVars,
                   pipeVars>>

\* the CI service: the combined commit status leaves pending
StatusReported ==
    /\ wPc \in {"check", "poll", "sleep"}
    /\ wState = "pending"
    /\ wState' \in CommitStates \ {"pending"}
    /\ UNCHANGED <<wMaxWait, wNow, wPc, wSleep, wRuns, wResult, wReturnedAt,
                   wPassedAt, wClean, wLastPoll, scoreVars, valVars,
                   ctxVars, auditVars, extVars, guardVars, parseVars, kwVars,
                   pipeVars>>

NextCI == LoopCheck \/ Poll \/ Sleep \/ CheckCompletes \/ StatusReported

----------------------------------------------------------------------------
(* Context assembler (context.ts, getCodeContext) and the handler's step   *)
(* around it (route.ts). A file's content is modelled by its length.       *)

ignorePatterns ==
    { <<"n","o","d","e","_","m","o","d","u","l","e","s">>,
      <<"d","i","s","t">>, <<"b","u","i","l","d">>, <<".","n","e","x","t">>,
      <<".","e","n","v">>, <<".","g","i","t">>,
      <<"c","o","v","e","r","a","g","e">>,
      <<".","D","S","_","S","t","o","r","e">> }

shouldIgnoreFile(path) == \E pattern \in ignorePatterns : includes(path, pattern)

hasRelevantExtension(path) == \E ext \in CodeExtensions : endsWith(path, ext)

\* Array.prototype.sort((a, b) => b.score - a.score): stable, by descending
\* score
RECURSIVE SortByScore(_)
\* a sort that puts the later of two equal scores first
RECURSIVE SortByScore_TiesReversed(_)
SortByScore_TiesReversed(files) ==
    IF files = <<>> THEN <<>>
    ELSE LET init == SortByScore_TiesReversed(SubSeq(files, 1, Len(files) - 1))
             last == files[Len(files)]
             ahead == Cardinality({ i \in 1..Len(init) :
                                      init[i].score > last.score })
         IN  SubSeq(init, 1, ahead) \o <<last>>
             \o SubSeq(init, ahead + 1, Len(init))

SortByScore(files) ==
    IF files = <<>> THEN <<>>
    ELSE LET init == SortByScore(SubSeq(files, 1, Len(files) - 1))
             last == files[Len(files)]
             ahead == Cardinality({ i \in 1..Len(init) :
                                      init[i].score >= last.score })
         IN  SubSeq(init, 1, ahead) \o <<last>>
             \o SubSeq(init, ahead + 1, Len(init))

\* the relevantFiles of getCodeContext
SelectRelevant(allFiles, keywords) ==
    LET Relevant(file) == /\ file.type = "blob"
                          /\ hasRelevantExtension(file.path)
                          /\ ~ shouldIgnoreFile(file.path)
        kept == SelectSeq(allFiles, Relevant)
        scored == [i \in 1..Len(kept) |->
                      [path |-> kept[i].path,
                       score |-> scoreFile(kept[i].path, keywords)]]
        sorted == SortByScore(scored)
    IN  SubSeq(sorted, 1, IF Len(sorted) < MAX_CONTEXT_FILES THEN Len(sorted)
                          ELSE MAX_CONTEXT_FILES)

\* content.length > 8000
MAX_CONTENT_LENGTH == 8000

\* the length of '\n// ... (truncated)'
TRUNCATION_MARKER_LENGTH == 19

TruncatedLength_Whole(length) == length

\* content.length > 8000 ? content.substring(0, 8000) + marker : content
TruncatedLength(length) ==
    IF length > MAX_CONTENT_LENGTH
    THEN MAX_CONTENT_LENGTH + TRUNCATION_MARKER_LENGTH
    ELSE length

\* how fetchRepositoryTree ends
TreeOutcomes == { "ok", "noCredentials", "repoNotOk", "treeNotOk", "throws" }

\* how fetchFileContent ends, and the length of a decoded content
FileFailures == { "notOk", "throws", "unexpectedEncoding" }

ContentLengths == { 120, 8000, 8001, 20000 }

\* the result of one fetchFileContent call before truncation
FileResults ==
    { [ok |-> FALSE, why |-> f, length |-> 0] : f \in FileFailures }
    \cup { [ok |-> TRUE, why |-> Absent, length |-> n] : n \in ContentLengths }

T_lib == <<"l","i","b">>

T_node_modules_x_ts ==
    <<"n","o","d","e","_","m","o","d","u","l","e","s","/","x",".","t","s">>

T_readme_md == <<"r","e","a","d","m","e",".","m","d">>

TreeEntries ==
    { [type |-> "blob", path |-> F_lib_parser_ts],
      [type |-> "blob", path |-> F_Parser_index_ts],
      [type |-> "blob", path |-> F_a_ts],
      [type |-> "blob", path |-> V_c_js],
      [type |-> "blob", path |-> T_node_modules_x_ts],
      [type |-> "blob", path |-> T_readme_md],
      [type |-> "tree", path |-> T_lib] }

\* most entries of the repository tree
MaxTreeFiles == 4

\* trees: lists of distinct entries
Trees ==
    { t \in UNION { [1..n -> TreeEntries] : n \in 0..MaxTreeFiles } :
        \A i, j \in 1..Len(t) : i # j => t[i] # t[j] }

CtxTickets ==
    { [summary |-> <<"I","n","d","e","x"," ","f","a","i","l","s">>,
       description |-> <<"p","a","r","s","e","r"," ","n","u","l","l">>],
      [summary |-> <<"o","d","d">>, description |-> <<"b","u","g">>] }

InitCtx ==
    /\ cTicket \in CtxTickets
    /\ cTree \in Trees
    /\ cPc = "start"
    /\ cSelected = <<>>
    /\ cIndex = 0
    /\ cContexts = <<>>
    /\ cFailed = {}
    /\ cTreeOutcome = Absent

IdleCtx ==
    /\ cTicket = [summary |-> <<>>, description |-> <<>>]
    /\ cTree = <<>>
    /\ cPc = "idle"
    /\ cSelected = <<>>
    /\ cIndex = 0
    /\ cContexts = <<>>
    /\ cFailed = {}
    /\ cTreeOutcome = Absent

\* getCodeContext up to the selection: extractKeywords, fetchRepositoryTree,
\* filter, score, sort, slice; the outer catch returns []
CtxSelect ==
    /\ cPc = "start"
    /\ \E outcome \in TreeOutcomes :
          /\ cTreeOutcome' = outcome
          /\ IF outcome = "ok"
             THEN /\ cSelected' = SelectRelevant(cTree, extractKeywords(cTicket))
                  /\ cIndex' = 1
                  /\ cPc' = IF cSelected' = <<>> THEN "returned" ELSE "fetching"
             ELSE /\ cPc' = "returned"
                  /\ UNCHANGED <<cSelected, cIndex>>
    /\ UNCHANGED <<cTicket, cTree, cContexts, cFailed, scoreVars, valVars,
                   ciVars, auditVars, extVars, guardVars, parseVars, kwVars,
                   pipeVars>>

\* one round of the loop over relevantFiles: fetchFileContent, push or catch
CtxFetchFile ==
    /\ cPc = "fetching"
    /\ \E result \in FileResults :
          IF ~ result.ok
          THEN /\ cFailed' = cFailed \cup {cIndex}
               /\ UNCHANGED cContexts
          ELSE /\ cContexts' =
                    Append(cContexts, [filename |-> cSelected[cIndex].path,
                                       content |-> TruncatedLength(result.length)])
               /\ UNCHANGED cFailed
    /\ cIndex' = cIndex + 1
    /\ cPc' = IF cIndex = Len(cSelected) THEN "returned" ELSE "fetching"
    /\ UNCHANGED <<cTicket, cTree, cSelected, cTreeOutcome, scoreVars, valVars,
                   ciVars, auditVars, extVars, guardVars, parseVars, kwVars,
                   pipeVars>>

\* the handler after getCodeContext: logCodeContextFetched, buildPrompt,
\* logPromptSentToAI, generateCode
CtxProceed ==
    /\ cPc = "returned"
    /\ cPc' = "generating"
    /\ UNCHANGED <<cTicket, cTree, cSelected, cIndex, cContexts, cFailed,
                   cTreeOutcome, scoreVars, valVars,
                   ciVars, auditVars, extVars, guardVars, parseVars, kwVars,
                   pipeVars>>

NextCtx == CtxSelect \/ CtxFetchFile \/ CtxProceed

----------------------------------------------------------------------------
(* Audit entries of the generation step (audit.ts: hashData,               *)
(* logPromptSentToAI, logAIOutputReceived), for two runs of one ticket.    *)

HexDigits ==
    <<"0","1","2","3","4","5","6","7","8","9","a","b","c","d","e","f">>

\* .substring(0, 16)
HASH_LENGTH == 16

\* the code of a character: letters by their place in the alphabet
CharCode(c) ==
    IF IsLower(c) THEN CHOOSE i \in 1..26 : LowerLetters[i] = c
    ELSE IF IsUpper(c) THEN 26 + (CHOOSE i \in 1..26 : UpperLetters[i] = c)
    ELSE 60

RECURSIVE CodeSum(_)
CodeSum(data) ==
    IF data = <<>> THEN 0 ELSE CharCode(Head(data)) + CodeSum(Tail(data))

\* sha256(data) in hex, cut to 16 digits. The digest is modelled by a
\* checksum of the text written as 16 hex digits: a function of the whole
\* text, of fixed width, and not injective
hashData(data) ==
    LET n == CodeSum(data) % 256
    IN  [i \in 1..HASH_LENGTH |->
            IF i = HASH_LENGTH - 1 THEN HexDigits[(n \div 16) + 1]
            ELSE IF i = HASH_LENGTH THEN HexDigits[(n % 16) + 1]
            ELSE "0"]

\* logAuditEvent: the entry written to the log
AuditLogEntry(ticketKey, timestamp, eventType, status, metadata) ==
    [ticketKey |-> ticketKey, timestamp |-> timestamp, eventType |-> eventType,
     status |-> status, metadata |-> metadata]

logPromptSentToAI_Raw(ticketKey, timestamp, prompt) ==
    AuditLogEntry(ticketKey, timestamp, "prompt_sent_to_ai", "success",
                  [promptHash |-> prompt, promptLength |-> Len(prompt)])

logPromptSentToAI(ticketKey, timestamp, prompt) ==
    AuditLogEntry(ticketKey, timestamp, "prompt_sent_to_ai", "success",
                  [promptHash |-> hashData(prompt),
                   promptLength |-> Len(prompt)])

logAIOutputReceived(ticketKey, timestamp, output) ==
    AuditLogEntry(ticketKey, timestamp, "ai_output_received", "success",
                  [outputHash |-> hashData(output),
                   outputLength |-> Len(output)])

A_fix_ab == <<"f","i","x"," ","a","b">>

A_fix_ba == <<"f","i","x"," ","b","a">>

A_fix_abc == <<"f","i","x"," ","a","b","c">>

A_key_text == <<"B","U","G","-","1">>

A_hash_like == <<"0","0","0","0","0","0","0","0","0","0","0","0","0","0","a","b">>

AuditTexts == { A_fix_ab, A_fix_ba, A_fix_abc, A_key_text, A_hash_like, <<>> }

AuditKeys == { "BUG-1", "BUG-2" }

Runs == {1, 2}

InitAudit ==
    /\ aKey \in AuditKeys
    /\ aPrompt \in [Runs -> AuditTexts]
    /\ aOutput \in [Runs -> AuditTexts]
    /\ aPc = [r \in Runs |-> "prompt"]
    /\ aLog = [r \in Runs |-> <<>>]
    /\ aClock = 0

IdleAudit ==
    /\ aKey = ""
    /\ aPrompt = <<>>
    /\ aOutput = <<>>
    /\ aPc = <<>>
    /\ aLog = <<>>
    /\ aClock = 0

\* const prompt = buildPrompt(...); logPromptSentToAI(ticket.key, prompt)
LogPromptSent ==
    /\ \E r \in Runs :
          /\ aPc[r] = "prompt"
          /\ aLog' = [aLog EXCEPT ![r] =
                         Append(@, logPromptSentToAI(aKey, aClock, aPrompt[r]))]
          /\ aPc' = [aPc EXCEPT ![r] = "generating"]
    /\ aClock' = aClock + 1
    /\ UNCHANGED <<aKey, aPrompt, aOutput, scoreVars, valVars, ciVars, ctxVars,
                   extVars, guardVars, parseVars, kwVars,
                   pipeVars>>

\* generatedCode = await generateCode(prompt);
\* logAIOutputReceived(ticket.key, generatedCode)
LogOutputReceived ==
    /\ \E r \in Runs :
          /\ aPc[r] = "generating"
          /\ aLog' = [aLog EXCEPT ![r] =
                         Append(@, logAIOutputReceived(aKey, aClock, aOutput[r]))]
          /\ aPc' = [aPc EXCEPT ![r] = "generated"]
    /\ aClock' = aClock + 1
    /\ UNCHANGED <<aKey, aPrompt, aOutput, scoreVars, valVars, ciVars, ctxVars,
                   extVars, guardVars, parseVars, kwVars,
                   pipeVars>>

NextAudit == LogPromptSent \/ LogOutputReceived

----------------------------------------------------------------------------
(* Error-signal extractor (context.ts, extractErrorInfo) and the flag of   *)
(* the final response (route.ts).                                          *)

W_Error ==
    <<"E", "r", "r", "o", "r">>

W_Exception ==
    <<"E", "x", "c", "e", "p", "t", "i", "o", "n">>

W_TypeError ==
    <<"T", "y", "p", "e", "E", "r", "r", "o", "r">>

W_ReferenceError ==
    <<"R", "e", "f", "e", "r", "e", "n", "c", "e", "E", "r", "r", "o", "r">>

W_SyntaxError ==
    <<"S", "y", "n", "t", "a", "x", "E", "r", "r", "o", "r">>

W_ValidationError ==
    <<"V", "a", "l", "i", "d", "a", "t", "i", "o", "n", "E", "r", "r", "o",
      "r">>

W_RuntimeError ==
    <<"R", "u", "n", "t", "i", "m", "e", "E", "r", "r", "o", "r">>

W_Failed ==
    <<"F", "a", "i", "l", "e", "d">>

W_Fails ==
    <<"F", "a", "i", "l", "s">>

W_Fail ==
    <<"F", "a", "i", "l">>

W_Stack_trace ==
    <<"S", "t", "a", "c", "k", " ", "t", "r", "a", "c", "e">>

W_StackTrace ==
    <<"S", "t", "a", "c", "k", "T", "r", "a", "c", "e">>

W_Error_message ==
    <<"E", "r", "r", "o", "r", " ", "m", "e", "s", "s", "a", "g", "e">>

W_Error_Message ==
    <<"E", "r", "r", "o", "r", " ", "M", "e", "s", "s", "a", "g", "e">>

W_Test ==
    <<"T", "e", "s", "t">>

W_Spec ==
    <<"S", "p", "e", "c">>

W_failed ==
    <<"f", "a", "i", "l", "e", "d">>

W_failure ==
    <<"f", "a", "i", "l", "u", "r", "e">>

W_error ==
    <<"e", "r", "r", "o", "r">>

W_FAIL ==
    <<"F", "A", "I", "L">>

W_FAILED ==
    <<"F", "A", "I", "L", "E", "D">>

W_ERROR ==
    <<"E", "R", "R", "O", "R">>

W_Expected ==
    <<"E", "x", "p", "e", "c", "t", "e", "d">>

W_Actual ==
    <<"A", "c", "t", "u", "a", "l">>

MatchesAt(t, i, w) ==
    i >= 1 /\ i + Len(w) - 1 <= Len(t) /\ SubSeq(t, i, i + Len(w) - 1) = w

\* a literal under the flag i
MatchesAtCI(t, i, w) ==
    /\ i >= 1
    /\ i + Len(w) - 1 <= Len(t)
    /\ toLowerCase(SubSeq(t, i, i + Len(w) - 1)) = toLowerCase(w)

Max(S) == CHOOSE x \in S : \A y \in S : y <= x

Min(S) == CHOOSE x \in S : \A y \in S : x <= y

\* the last position of the longest [^\n]+ that starts at p
LineEnd(t, p) ==
    Max({ q \in p..Len(t) : \A k \in p..q : t[k] # "\n" })

\* the first position from `from` on whose character is in (inSet = TRUE)
\* or not in (inSet = FALSE) the class; Len(t) + 1 when there is none
FirstPos(t, from, class, inSet) ==
    Min({ p \in from..Len(t) : (t[p] \in class) = inSet } \cup {Len(t) + 1})

\* where the group ([^\n]+) can start after a run of class characters of
\* at least minRun that starts at `from`
GroupStarts(t, from, class, minRun) ==
    { p \in (from + minRun)..Len(t) :
        /\ \A k \in from..(p - 1) : t[k] \in class
        /\ t[p] # "\n" }

\* the result of String.prototype.match: matches[0] and the group used
NoMatch == [found |-> FALSE, whole |-> <<>>, group |-> <<>>]

Matched(t, i, groupStart, end) ==
    [found |-> TRUE, whole |-> SubSeq(t, i, end),
     group |-> SubSeq(t, groupStart, end)]

\* /(?:w1|w2|...)<class>{minRun,}([^\n]+)/i: the leftmost position where
\* one of the words matches and the rest can follow; the class run is
\* greedy, so the group starts as late as it can
WordThenLine(t, words, class, minRun) ==
    LET After(i, k) == i + Len(words[k])
        Fits(i, k) == /\ MatchesAtCI(t, i, words[k])
                      /\ GroupStarts(t, After(i, k), class, minRun) # {}
        Starts == { i \in 1..Len(t) : \E k \in 1..Len(words) : Fits(i, k) }
    IN  IF Starts = {} THEN NoMatch
        ELSE LET i == Min(Starts)
                 k == Min({ n \in 1..Len(words) : Fits(i, n) })
                 p == Max(GroupStarts(t, After(i, k), class, minRun))
             IN  Matched(t, i, p, LineEnd(t, p))

ColonOrSpace == Whitespace \cup {":"}

\* /(?:Error|Exception|TypeError|ReferenceError|SyntaxError)[:\s]+([^\n]+)/i
StackPattern1(t) ==
    WordThenLine(t, <<W_Error, W_Exception, W_TypeError, W_ReferenceError,
                      W_SyntaxError>>, ColonOrSpace, 1)

\* /at\s+([^\s]+)\s+\(([^:]+):(\d+):(\d+)\)/g: matches[0] is the first
\* frame. Every part is followed by a character it cannot hold, so each run
\* is the longest one
FrameEnd(t, i) ==
    LET b == FirstPos(t, i + 2, Whitespace, FALSE)
        c == FirstPos(t, b, Whitespace, TRUE)
        d == FirstPos(t, c, Whitespace, FALSE)
        e == FirstPos(t, d + 1, {":"}, TRUE)
        f == FirstPos(t, e + 1, Digits, FALSE)
        g == FirstPos(t, f + 1, Digits, FALSE)
    IN  IF /\ MatchesAt(t, i, <<"a","t">>)
           /\ b > i + 2 /\ b <= Len(t)
           /\ c <= Len(t)
           /\ d <= Len(t) /\ t[d] = "("
           /\ e <= Len(t) /\ e > d + 1
           /\ f > e + 1 /\ f <= Len(t) /\ t[f] = ":"
           /\ g > f + 1 /\ g <= Len(t) /\ t[g] = ")"
        THEN g ELSE 0

StackPattern2(t) ==
    LET Starts == { i \in 1..Len(t) : FrameEnd(t, i) > 0 }
    IN  IF Starts = {} THEN NoMatch
        ELSE [found |-> TRUE,
              whole |-> SubSeq(t, Min(Starts), FrameEnd(t, Min(Starts))),
              group |-> <<>>]

IsLetter(c) == IsUpper(c) \/ IsLower(c)

\* /(?:Stack trace|StackTrace):\s*([\s\S]+?)(?:\n\n|\n[A-Z]|$)/i: the group
\* is lazy and stops at the first blank line, the first line that starts
\* with a letter (the flag i widens [A-Z]) or the end of the text; the
\* terminator is part of matches[0]
StackPattern3(t) ==
    LET Colon(i) == IF MatchesAtCI(t, i, W_Stack_trace) THEN i + Len(W_Stack_trace)
                    ELSE IF MatchesAtCI(t, i, W_StackTrace) THEN i + Len(W_StackTrace)
                    ELSE 0
        Fits(i) == /\ Colon(i) > 0
                   /\ Colon(i) < Len(t)
                   /\ t[Colon(i)] = ":"
        Starts == { i \in 1..Len(t) : Fits(i) }
    IN  IF Starts = {} THEN NoMatch
        ELSE LET i == Min(Starts)
                 run == FirstPos(t, Colon(i) + 1, Whitespace, FALSE)
                 g == IF run <= Len(t) THEN run ELSE Len(t)
                 Stops(q) == \/ q = Len(t) + 1
                             \/ /\ q < Len(t)
                                /\ t[q] = "\n"
                                /\ (t[q + 1] = "\n" \/ IsLetter(t[q + 1]))
                 q == Min({ n \in (g + 1)..(Len(t) + 1) : Stops(n) })
                 end == IF q = Len(t) + 1 THEN Len(t) ELSE q + 1
             IN  [found |-> TRUE, whole |-> SubSeq(t, i, end),
                  group |-> SubSeq(t, g, q - 1)]

\* the word followed by a colon, for /(?:...):\s*([^\n]+)/
WithColon(w) == w \o <<":">>

\* /(?:Error|Exception|Failed|Fails?):\s*([^\n]+)/i
MessagePattern1(t) ==
    WordThenLine(t, <<WithColon(W_Error), WithColon(W_Exception),
                      WithColon(W_Failed), WithColon(W_Fails),
                      WithColon(W_Fail)>>, Whitespace, 0)

\* /(?:Error message|Error Message):\s*([^\n]+)/i
MessagePattern2(t) ==
    WordThenLine(t, <<WithColon(W_Error_message), WithColon(W_Error_Message)>>,
                 Whitespace, 0)

\* /"([^"]*Error[^"]*)"|'([^']*Error[^']*)'/i: a quoted text that holds
\* the word; `group` is match[1] || match[2]
MessagePattern3(t) ==
    LET Close(i) == FirstPos(t, i + 1, {t[i]}, TRUE)
        Fits(i) == /\ t[i] \in {"\"", "'"}
                   /\ Close(i) <= Len(t)
                   /\ \E k \in (i + 1)..(Close(i) - 1) :
                          /\ k + Len(W_Error) <= Close(i)
                          /\ MatchesAtCI(t, k, W_Error)
        Starts == { i \in 1..Len(t) : Fits(i) }
    IN  IF Starts = {} THEN NoMatch
        ELSE LET i == Min(Starts)
             IN  [found |-> TRUE, whole |-> SubSeq(t, i, Close(i)),
                  group |-> SubSeq(t, i + 1, Close(i) - 1)]

\* /(?:Test|Spec)\s+(?:failed|failure|error)[:\s]+([^\n]+)/i
TestPattern1(t) ==
    LET Second(i, w) == FirstPos(t, i + Len(w), Whitespace, FALSE)
        After(i, w, v) == Second(i, w) + Len(v)
        Fits(i, w, v) == /\ MatchesAtCI(t, i, w)
                         /\ Second(i, w) > i + Len(w)
                         /\ MatchesAtCI(t, Second(i, w), v)
                         /\ GroupStarts(t, After(i, w, v), ColonOrSpace, 1) # {}
        Firsts == {W_Test, W_Spec}
        Seconds == {W_failed, W_failure, W_error}
        Starts == { i \in 1..Len(t) :
                      \E w \in Firsts, v \in Seconds : Fits(i, w, v) }
    IN  IF Starts = {} THEN NoMatch
        ELSE LET i == Min(Starts)
                 w == CHOOSE x \in Firsts : \E v \in Seconds : Fits(i, x, v)
                 v == CHOOSE y \in Seconds : Fits(i, w, y)
                 p == Max(GroupStarts(t, After(i, w, v), ColonOrSpace, 1))
             IN  Matched(t, i, p, LineEnd(t, p))

\* /(?:FAIL|FAILED|ERROR)\s+([^\n]+)/i
TestPattern2(t) == WordThenLine(t, <<W_FAIL, W_FAILED, W_ERROR>>, Whitespace, 1)

\* /(?:Expected|Expected:)\s+([^\n]+)/i
TestPattern3(t) ==
    WordThenLine(t, <<W_Expected, WithColon(W_Expected)>>, Whitespace, 1)

\* /(?:Actual|Actual:)\s+([^\n]+)/i
TestPattern4(t) ==
    WordThenLine(t, <<W_Actual, WithColon(W_Actual)>>, Whitespace, 1)

\* the class [\/\w\-\.]
IsPathChar(c) == IsWordChar(c) \/ c \in {"/", "-", "."}

\* the alternatives of \.(?:ts|tsx|js|jsx)
LocationExtensions ==
    { <<".","t","s">>, <<".","t","s","x">>, <<".","j","s">>,
      <<".","j","s","x">> }

DigitValue(c) == CHOOSE d \in 0..9 : HexDigits[d + 1] = c

\* parseInt(digits, 10)
RECURSIVE parseInt(_)
parseInt(digits) ==
    IF digits = <<>> THEN 0
    ELSE 10 * parseInt(SubSeq(digits, 1, Len(digits) - 1))
         + DigitValue(digits[Len(digits)])

\* /([\/\w\-\.]+\.(?:ts|tsx|js|jsx)):(\d+)/: a run of path characters that
\* ends in an extension, then a colon and digits. The run cannot hold a
\* colon, so the path ends where the run ends
FileLinePattern(t) ==
    LET RunEnd(i) == FirstPos(t, i, { c \in {t[k] : k \in i..Len(t)} :
                                        IsPathChar(c) }, FALSE) - 1
        DigitsEnd(i) == FirstPos(t, RunEnd(i) + 2, Digits, FALSE) - 1
        Fits(i) == /\ IsPathChar(t[i])
                   /\ RunEnd(i) + 2 <= Len(t)
                   /\ t[RunEnd(i) + 1] = ":"
                   /\ t[RunEnd(i) + 2] \in Digits
                   /\ \E e \in LocationExtensions :
                          /\ endsWith(SubSeq(t, i, RunEnd(i)), e)
                          /\ RunEnd(i) - i + 1 > Len(e)
        Starts == { i \in 1..Len(t) : Fits(i) }
    IN  IF Starts = {} THEN [found |-> FALSE, path |-> <<>>, line |-> 0]
        ELSE LET i == Min(Starts)
             IN  [found |-> TRUE, path |-> SubSeq(t, i, RunEnd(i)),
                  line |-> parseInt(SubSeq(t, RunEnd(i) + 2, DigitsEnd(i)))]

\* /(TypeError|ReferenceError|SyntaxError|Error|Exception|ValidationError|
\* RuntimeError)/i: the leftmost position, the first alternative there
ErrorTypePattern(t) ==
    LET words == <<W_TypeError, W_ReferenceError, W_SyntaxError, W_Error,
                   W_Exception, W_ValidationError, W_RuntimeError>>
        Starts == { i \in 1..Len(t) :
                      \E k \in 1..Len(words) : MatchesAtCI(t, i, words[k]) }
    IN  IF Starts = {} THEN NoMatch
        ELSE LET i == Min(Starts)
                 k == Min({ n \in 1..Len(words) : MatchesAtCI(t, i, words[n]) })
                 end == i + Len(words[k]) - 1
             IN  Matched(t, i, i, end)

\* an optional field of ExtractedErrorInfo
Unset == [isSet |-> FALSE, val |-> <<>>]

SetTo(v) == [isSet |-> TRUE, val |-> v]

\* info.stackTrace += matches[0] + '\n', for every pattern that matches
StackTraceOf(t) ==
    LET Piece(m) == IF m.found THEN m.whole \o <<"\n">> ELSE <<>>
        found == StackPattern1(t).found \/ StackPattern2(t).found
                     \/ StackPattern3(t).found
    IN  IF found
        THEN SetTo(Piece(StackPattern1(t)) \o Piece(StackPattern2(t))
                   \o Piece(StackPattern3(t)))
        ELSE Unset

\* match[1] || match[2] || match[0]
GroupOrWhole(m) == IF m.group # <<>> THEN m.group ELSE m.whole

\* the first pattern that matches sets the field; break
FirstMatch(ms) ==
    IF \E k \in 1..Len(ms) : ms[k].found
    THEN SetTo(GroupOrWhole(ms[Min({ k \in 1..Len(ms) : ms[k].found })]))
    ELSE Unset

extractErrorInfo(description) ==
    LET fileMatch == FileLinePattern(description)
        typeMatch == ErrorTypePattern(description)
    IN  [stackTrace |-> StackTraceOf(description),
         errorMessage |-> FirstMatch(<<MessagePattern1(description),
                                       MessagePattern2(description),
                                       MessagePattern3(description)>>),
         testFailure |-> FirstMatch(<<TestPattern1(description),
                                      TestPattern2(description),
                                      TestPattern3(description),
                                      TestPattern4(description)>>),
         filePath |-> IF fileMatch.found THEN SetTo(fileMatch.path) ELSE Unset,
         lineNumber |-> IF fileMatch.found
                        THEN [isSet |-> TRUE, val |-> fileMatch.line]
                        ELSE [isSet |-> FALSE, val |-> 0],
         errorType |-> IF typeMatch.found THEN SetTo(typeMatch.whole) ELSE Unset]

\* const info: ExtractedErrorInfo = {}
EmptyInfo ==
    [stackTrace |-> Unset, errorMessage |-> Unset, testFailure |-> Unset,
     filePath |-> Unset, lineNumber |-> [isSet |-> FALSE, val |-> 0],
     errorType |-> Unset]

\* JavaScript truthiness of an optional string field
TruthyField(f) == f.isSet /\ f.val # <<>>

\* error_info_extracted: !!(errorInfo.errorMessage || errorInfo.stackTrace)
ErrorInfoExtracted(info) ==
    TruthyField(info.errorMessage) \/ TruthyField(info.stackTrace)

D_type_error ==
    <<"T", "y", "p", "e", "E", "r", "r", "o", "r", ":", " ", "x", " ", "i",
      "s", " ", "n", "u", "l", "l">>

D_frame ==
    <<"a", "t", " ", "f", " ", "(", "l", "i", "b", "/", "a", ".", "t", "s",
      ":", "1", ":", "2", ")">>

D_stack ==
    <<"S", "t", "a", "c", "k", " ", "t", "r", "a", "c", "e", ":", " ", "b",
      "o", "o", "m">>

D_error_message ==
    <<"E", "r", "r", "o", "r", " ", "m", "e", "s", "s", "a", "g", "e", ":",
      " ", "d", "i", "s", "k", " ", "f", "u", "l", "l">>

D_fail ==
    <<"F", "A", "I", "L", " ", "s", "u", "i", "t", "e", " ", "o", "n", "e">>

D_test_failed ==
    <<"T", "e", "s", "t", " ", "f", "a", "i", "l", "e", "d", ":", " ", "a",
      "d", "d", "s">>

D_expected ==
    <<"E", "x", "p", "e", "c", "t", "e", "d", " ", "3">>

D_location ==
    <<"s", "e", "e", " ", "l", "i", "b", "/", "b", ".", "j", "s", ":", "1",
      "2">>

D_plain ==
    <<"i", "t", " ", "b", "r", "e", "a", "k", "s">>

D_quoted ==
    <<"'", "A", "n", " ", "E", "r", "r", "o", "r", " ", "o", "c", "c", "u",
      "r", "r", "e", "d", "'">>

D_bare_error ==
    <<"a", "n", " ", "E", "r", "r", "o", "r">>

ErrSampleLines ==
    { D_type_error,
      D_frame,
      D_stack,
      D_error_message,
      D_fail,
      D_test_failed,
      D_expected,
      D_location,
      D_plain,
      D_quoted,
      D_bare_error }

\* most lines of a ticket description
MaxErrLines == 2

ErrDescriptions ==
    { join(ls) : ls \in UNION { [1..n -> ErrSampleLines] : n \in 1..MaxErrLines } }

InitErr ==
    /\ eDescription \in ErrDescriptions
    /\ ePc = "start"
    /\ eInfo = EmptyInfo
    /\ eFlag = FALSE

IdleErr ==
    /\ eDescription = <<>>
    /\ ePc = "idle"
    /\ eInfo = EmptyInfo
    /\ eFlag = FALSE

\* const errorInfo = extractErrorInfo(ticket.description)
ExtractErrorInfo ==
    /\ ePc = "start"
    /\ eInfo' = extractErrorInfo(eDescription)
    /\ ePc' = "extracted"
    /\ UNCHANGED <<eDescription, eFlag, scoreVars, valVars, ciVars, ctxVars,
                   auditVars, guardVars, parseVars, kwVars, pipeVars,
                   branchVars, lateVars, tmpVars>>

\* the final response: error_info_extracted
RespondWithFlag ==
    /\ ePc = "extracted"
    /\ eFlag' = ErrorInfoExtracted(eInfo)
    /\ ePc' = "responded"
    /\ UNCHANGED <<eDescription, eInfo, scoreVars, valVars, ciVars, ctxVars,
                   auditVars, guardVars, parseVars, kwVars, pipeVars,
                   branchVars, lateVars, tmpVars>>

NextErr == ExtractErrorInfo \/ RespondWithFlag

-----------------------------------------------------------------------------
(* Branch creation (context.ts, createBranch and the head of              *)
(* createPRFromAICode).  The repository keeps one ref per branch name; a   *)
(* SHA is a positive number and 0 stands for "no such ref".  Several        *)
(* submissions run against the same repository and interleave at every     *)
(* await.                                                                   *)

MaxSubmissions == 2

MaxSha == 3

Submissions == 1..MaxSubmissions

K_bug_1 == <<"B","U","G","-","1">>

K_bug_2 == <<"B","U","G","-","2">>

BranchTicketKeys == { K_bug_1, K_bug_2 }

BranchPrefix == <<"a","u","t","o","m","a","t","a","/">>

BranchSuffix == <<"-","a","i","-","f","i","x">>

\* const branchName = `automata/${ticket.key}-ai-fix`
branchNameOf(key) == BranchPrefix \o key \o BranchSuffix

BranchNames == { branchNameOf(k) : k \in BranchTicketKeys }

NoSha == 0

STATUS_CREATED == 201

STATUS_UNPROCESSABLE == 422

STATUS_SERVER_ERROR == 500

\* createBranch after the POST of the new ref: response.ok returns the SHA of
\* the response, 422 goes on to read the ref, anything else throws
AfterCreate_NoReuse(status) ==
    IF status = STATUS_CREATED THEN "returned" ELSE "raised"

AfterCreate(status) ==
    IF status = STATUS_CREATED THEN "returned"
    ELSE IF status = STATUS_UNPROCESSABLE THEN "lookup"
    ELSE "raised"

\* createBranch after the read of the existing ref: existingRef.ok returns
\* refData.object.sha, otherwise the throw below the 422 test is reached
AfterLookup(ok) == IF ok THEN "returned" ELSE "raised"

\* the answer of the service to POST /git/refs: a request that does not get
\* through is a 5xx; an existing ref is refused with 422; a new ref is
\* created, unless the service refuses the request body with 422
CreateAnswers(exists) ==
    IF exists THEN { STATUS_UNPROCESSABLE, STATUS_SERVER_ERROR }
    ELSE { STATUS_CREATED, STATUS_UNPROCESSABLE, STATUS_SERVER_ERROR }

InitBranch ==
    /\ bKey \in [Submissions -> BranchTicketKeys]
    /\ bPc = [p \in Submissions |-> "start"]
    /\ bName = [p \in Submissions |-> <<>>]
    /\ bBase = [p \in Submissions |-> NoSha]
    /\ bStatus = [p \in Submissions |-> 0]
    /\ bLookup = [p \in Submissions |-> "none"]
    /\ bSha = [p \in Submissions |-> NoSha]
    /\ bExisted = [p \in Submissions |-> FALSE]
    /\ bRefs = [n \in BranchNames |-> NoSha]
    /\ bDefault = 1
    /\ bClock = 1

IdleBranch ==
    /\ bKey = [p \in Submissions |-> K_bug_1]
    /\ bPc = [p \in Submissions |-> "idle"]
    /\ bName = [p \in Submissions |-> <<>>]
    /\ bBase = [p \in Submissions |-> NoSha]
    /\ bStatus = [p \in Submissions |-> 0]
    /\ bLookup = [p \in Submissions |-> "none"]
    /\ bSha = [p \in Submissions |-> NoSha]
    /\ bExisted = [p \in Submissions |-> FALSE]
    /\ bRefs = [n \in BranchNames |-> NoSha]
    /\ bDefault = 1
    /\ bClock = 1

BranchOthersUnchanged ==
    UNCHANGED <<scoreVars, valVars, ciVars, ctxVars, auditVars, errVars,
                guardVars, parseVars, kwVars, pipeVars, lateVars, tmpVars>>

\* createPRFromAICode: the branch name, then createBranch is entered
NameBranch(p) ==
    /\ bPc[p] = "start"
    /\ bName' = [bName EXCEPT ![p] = branchNameOf(bKey[p])]
    /\ bPc' = [bPc EXCEPT ![p] = "getsha"]
    /\ UNCHANGED <<bKey, bBase, bStatus, bLookup, bSha, bExisted, bRefs,
                   bDefault, bClock>>
    /\ BranchOthersUnchanged

\* getDefaultBranchSha: the SHA of the default branch, or a throw
GetDefaultBranchSha(p) ==
    /\ bPc[p] = "getsha"
    /\ \E ok \in BOOLEAN :
          IF ok
          THEN /\ bBase' = [bBase EXCEPT ![p] = bDefault]
               /\ bPc' = [bPc EXCEPT ![p] = "post"]
          ELSE /\ bPc' = [bPc EXCEPT ![p] = "raised"]
               /\ UNCHANGED bBase
    /\ UNCHANGED <<bKey, bName, bStatus, bLookup, bSha, bExisted, bRefs,
                   bDefault, bClock>>
    /\ BranchOthersUnchanged

\* POST /git/refs with ref refs/heads/<branchName> and the default SHA
PostRef(p) ==
    /\ bPc[p] = "post"
    /\ LET exists == bRefs[bName[p]] # NoSha
       IN  \E status \in CreateAnswers(exists) :
             /\ bStatus' = [bStatus EXCEPT ![p] = status]
             /\ bExisted' =
                  [bExisted EXCEPT
                     ![p] = exists /\ status = STATUS_UNPROCESSABLE]
             /\ bPc' = [bPc EXCEPT ![p] = AfterCreate(status)]
             /\ IF status = STATUS_CREATED
                THEN /\ bRefs' = [bRefs EXCEPT ![bName[p]] = bBase[p]]
                     /\ bSha' = [bSha EXCEPT ![p] = bBase[p]]
                ELSE UNCHANGED <<bRefs, bSha>>
    /\ UNCHANGED <<bKey, bName, bBase, bLookup, bDefault, bClock>>
    /\ BranchOthersUnchanged

\* GET /git/ref/heads/<branchName> after a 422
LookupRef(p) ==
    /\ bPc[p] = "lookup"
    /\ \E answered \in BOOLEAN :
          LET found == answered /\ bRefs[bName[p]] # NoSha
          IN  /\ bLookup' =
                   [bLookup EXCEPT
                      ![p] = IF found THEN "ok"
                             ELSE IF answered THEN "notfound" ELSE "error"]
              /\ bPc' = [bPc EXCEPT ![p] = AfterLookup(found)]
              /\ bSha' = [bSha EXCEPT
                            ![p] = IF found THEN bRefs[bName[p]] ELSE @]
    /\ UNCHANGED <<bKey, bName, bBase, bStatus, bExisted, bRefs, bDefault,
                   bClock>>
    /\ BranchOthersUnchanged

\* a commit lands on the default branch
AdvanceDefaultBranch ==
    /\ bClock < MaxSha
    /\ bClock' = bClock + 1
    /\ bDefault' = bClock + 1
    /\ UNCHANGED <<bKey, bPc, bName, bBase, bStatus, bLookup, bSha, bExisted,
                   bRefs>>
    /\ BranchOthersUnchanged

\* commitChanges of a submission whose createBranch returned: the feature
\* branch moves to a new commit
CommitToBranch(p) ==
    /\ bPc[p] = "returned"
    /\ bClock < MaxSha
    /\ bClock' = bClock + 1
    /\ bRefs' = [bRefs EXCEPT ![bName[p]] = bClock + 1]
    /\ bPc' = [bPc EXCEPT ![p] = "committed"]
    /\ UNCHANGED <<bKey, bName, bBase, bStatus, bLookup, bSha, bExisted,
                   bDefault>>
    /\ BranchOthersUnchanged

NextBranch ==
    \/ \E p \in Submissions : NameBranch(p)
    \/ \E p \in Submissions : GetDefaultBranchSha(p)
    \/ \E p \in Submissions : PostRef(p)
    \/ \E p \in Submissions : LookupRef(p)
    \/ AdvanceDefaultBranch
    \/ \E p \in Submissions : CommitToBranch(p)

-----------------------------------------------------------------------------
(* The validator's temporary directory (validation.ts, lines 48-61 and      *)
(* 144-153) under concurrent runs.  The runs of one server process share    *)
(* os.tmpdir() and the clock, and interleave at every await.  A directory   *)
(* is named by the millisecond it was named in.                             *)

MaxRuns == 2

MaxClock == 2

TmpRuns == 1..MaxRuns

\* one code file per run
TmpLists ==
    { <<[path |-> p, content |-> c]>> :
        p \in { P_lib_a_ts, FALLBACK_PATH },
        c \in { <<"x">>, <<"f","(">> } }

AvailableEnv == [fsOk |-> TRUE, tsc |-> TRUE, eslint |-> TRUE]

WriteFailedEnv == [fsOk |-> FALSE, tsc |-> TRUE, eslint |-> TRUE]

NoStamp == 0

\* join(tmpdir(), `automata-validation-${Date.now()}`): the name depends on
\* the clock only
tempDirOf(now) == now

InitTmp ==
    /\ tClock = 1
    /\ tStamp = [r \in TmpRuns |-> NoStamp]
    /\ tPc = [r \in TmpRuns |-> "start"]
    /\ tChanges \in [TmpRuns -> TmpLists]
    /\ tResult = [r \in TmpRuns |-> NoValidation]
    /\ tFsDirs = {}
    /\ tFsFiles = {}

IdleTmp ==
    /\ tClock = 1
    /\ tStamp = [r \in TmpRuns |-> NoStamp]
    /\ tPc = [r \in TmpRuns |-> "idle"]
    /\ tChanges = [r \in TmpRuns |-> <<>>]
    /\ tResult = [r \in TmpRuns |-> NoValidation]
    /\ tFsDirs = {}
    /\ tFsFiles = {}

TmpOthersUnchanged ==
    UNCHANGED <<scoreVars, valVars, ciVars, ctxVars, auditVars, errVars,
                branchVars, lateVars, guardVars, parseVars, kwVars, pipeVars>>

\* a millisecond passes
ClockTick ==
    /\ tClock < MaxClock
    /\ tClock' = tClock + 1
    /\ UNCHANGED <<tStamp, tPc, tChanges, tResult, tFsDirs, tFsFiles>>
    /\ TmpOthersUnchanged

\* const tempDir = join(tmpdir(), `automata-validation-${Date.now()}`)
NameTempDir(r) ==
    /\ tPc[r] = "start"
    /\ tStamp' = [tStamp EXCEPT ![r] = tempDirOf(tClock)]
    /\ tPc' = [tPc EXCEPT ![r] = "mkdir"]
    /\ UNCHANGED <<tClock, tChanges, tResult, tFsDirs, tFsFiles>>
    /\ TmpOthersUnchanged

\* await mkdir(tempDir, { recursive: true }): no error when it exists
MkdirTemp(r) ==
    /\ tPc[r] = "mkdir"
    /\ tFsDirs' = tFsDirs \cup {tStamp[r]}
    /\ tPc' = [tPc EXCEPT ![r] = "parent"]
    /\ UNCHANGED <<tClock, tStamp, tChanges, tResult, tFsFiles>>
    /\ TmpOthersUnchanged

\* await mkdir(dirPath, { recursive: true }) for the file
MkdirParent(r) ==
    /\ tPc[r] = "parent"
    /\ tFsDirs' = tFsDirs \cup {tStamp[r]}
    /\ tPc' = [tPc EXCEPT ![r] = "write"]
    /\ UNCHANGED <<tClock, tStamp, tChanges, tResult, tFsFiles>>
    /\ TmpOthersUnchanged

\* await writeFile(filePath, fileChange.content, 'utf-8'): replaces a file
\* of that name, and is rejected when the directory is gone, which the outer
\* catch turns into a failed result
WriteTempFile(r) ==
    /\ tPc[r] = "write"
    /\ LET path == tChanges[r][1].path
       IN  IF tStamp[r] \in tFsDirs
           THEN /\ tFsFiles' =
                     { f \in tFsFiles :
                         ~ (f.dir = tStamp[r] /\ f.path = path) }
                     \cup {[dir |-> tStamp[r], path |-> path, owner |-> r]}
                /\ tPc' = [tPc EXCEPT ![r] = "check"]
                /\ UNCHANGED tResult
           ELSE /\ tResult' =
                     [tResult EXCEPT
                        ![r] = validateGeneratedCode(tChanges[r],
                                                     WriteFailedEnv)]
                /\ tPc' = [tPc EXCEPT ![r] = "cleanup"]
                /\ UNCHANGED tFsFiles
    /\ UNCHANGED <<tClock, tStamp, tChanges, tFsDirs>>
    /\ TmpOthersUnchanged

\* the syntax, type and lint checks, on the contents held in memory
RunChecks(r) ==
    /\ tPc[r] = "check"
    /\ tResult' =
         [tResult EXCEPT
            ![r] = validateGeneratedCode(tChanges[r], AvailableEnv)]
    /\ tPc' = [tPc EXCEPT ![r] = "cleanup"]
    /\ UNCHANGED <<tClock, tStamp, tChanges, tFsDirs, tFsFiles>>
    /\ TmpOthersUnchanged

\* finally: await rm(tempDir, { recursive: true, force: true }); return
CleanupTempDir(r) ==
    /\ tPc[r] = "cleanup"
    /\ tFsDirs' = tFsDirs \ {tStamp[r]}
    /\ tFsFiles' = { f \in tFsFiles : f.dir # tStamp[r] }
    /\ tPc' = [tPc EXCEPT ![r] = "returned"]
    /\ UNCHANGED <<tClock, tStamp, tChanges, tResult>>
    /\ TmpOthersUnchanged

NextTmp ==
    \/ ClockTick
    \/ \E r \in TmpRuns : NameTempDir(r)
    \/ \E r \in TmpRuns : MkdirTemp(r)
    \/ \E r \in TmpRuns : MkdirParent(r)
    \/ \E r \in TmpRuns : WriteTempFile(r)
    \/ \E r \in TmpRuns : RunChecks(r)
    \/ \E r \in TmpRuns : CleanupTempDir(r)

\* the checks of the pull request have not passed after the response
IdleLate == lChecksPassed = FALSE

IdleExt == IdleErr /\ IdleBranch /\ IdleLate /\ IdleTmp

\* the CI service after the handler has responded with pending: every check
\* of the pull request completes successfully.  No code of the repository
\* runs at that moment: the handler has returned and waitForCIChecks left no
\* timer behind.
ChecksPassAfterResponse ==
    /\ pc = "done"
    /\ ciStatus = "pending"
    /\ ~ lChecksPassed
    /\ lChecksPassed' = TRUE
    /\ UNCHANGED <<scoreVars, valVars, ciVars, ctxVars, auditVars, errVars,
                   branchVars, guardVars, parseVars, kwVars, pipeVars,
                   tmpVars>>

IdleAux == IdleScore /\ IdleVal /\ IdleCI /\ IdleCtx /\ IdleAudit /\ IdleExt

----------------------------------------------------------------------------
(* Specifications.                                                         *)

InitPipeline == Init /\ IdleGuard /\ IdleParse /\ IdleKw /\ IdleAux

InitScoreOnly ==
    InitScore /\ IdleVal /\ IdleCI /\ IdleCtx /\ IdleGuard /\ IdleParse /\ IdleKw /\ IdlePipeline /\ IdleAudit /\ IdleExt

InitValOnly ==
    InitVal /\ IdleScore /\ IdleCI /\ IdleCtx /\ IdleGuard /\ IdleParse /\ IdleKw
    /\ IdlePipeline /\ IdleAudit /\ IdleExt

InitCIOnly ==
    InitCI /\ IdleScore /\ IdleVal /\ IdleCtx /\ IdleGuard /\ IdleParse /\ IdleKw
    /\ IdlePipeline /\ IdleAudit /\ IdleExt

InitCtxOnly ==
    InitCtx /\ IdleScore /\ IdleVal /\ IdleCI /\ IdleGuard /\ IdleParse /\ IdleKw
    /\ IdlePipeline /\ IdleAudit /\ IdleExt

SpecCtx == InitCtxOnly /\ [][NextCtx]_vars

InitAuditOnly ==
    InitAudit /\ IdleScore /\ IdleVal /\ IdleCI /\ IdleCtx /\ IdleGuard
    /\ IdleParse /\ IdleKw /\ IdlePipeline /\ IdleExt

SpecAudit == InitAuditOnly /\ [][NextAudit]_vars

InitErrOnly ==
    InitErr /\ IdleScore /\ IdleVal /\ IdleCI /\ IdleCtx /\ IdleAudit
    /\ IdleGuard /\ IdleParse /\ IdleKw /\ IdlePipeline /\ IdleBranch
    /\ IdleLate /\ IdleTmp

SpecErr == InitErrOnly /\ [][NextErr]_vars

InitBranchOnly ==
    InitBranch /\ IdleScore /\ IdleVal /\ IdleCI /\ IdleCtx /\ IdleAudit
    /\ IdleErr /\ IdleGuard /\ IdleParse /\ IdleKw /\ IdlePipeline
    /\ IdleLate /\ IdleTmp

SpecBranch == InitBranchOnly /\ [][NextBranch]_vars

NextLate == Next \/ ChecksPassAfterResponse

\* the pipeline with the CI service going on after the response; the steps of
\* the handler's CI stage are awaited one after the other, so each of them,
\* once it can be taken, is taken
SpecLate ==
    /\ InitPipeline
    /\ [][NextLate]_vars
    /\ WF_vars(CIReturns)
    /\ WF_vars(MarkReady)
    /\ WF_vars(PostComment)

InitTmpOnly ==
    InitTmp /\ IdleScore /\ IdleVal /\ IdleCI /\ IdleCtx /\ IdleAudit
    /\ IdleErr /\ IdleBranch /\ IdleLate /\ IdleGuard /\ IdleParse /\ IdleKw
    /\ IdlePipeline

SpecTmp == InitTmpOnly /\ [][NextTmp]_vars

SpecCI == InitCIOnly /\ [][NextCI]_vars

\* the calls whose deadline is shorter than the handler's
InitCILive == InitCIOnly /\ wMaxWait < ROUTE_MAX_WAIT

\* the loop of waitForCIChecks is one chain of awaited steps: a step that can
\* be taken is taken (requests are answered or rejected, timers fire)
SpecCILive ==
    /\ InitCILive
    /\ [][NextCI]_vars
    /\ WF_vars(LoopCheck)
    /\ WF_vars(Poll)
    /\ WF_vars(Sleep)

SpecVal == InitValOnly /\ [][NextVal]_vars

SpecScore == InitScoreOnly /\ [][NextScore]_vars

Spec == InitPipeline /\ [][Next]_vars

InitGuardOnly == InitGuard /\ IdleParse /\ IdleKw /\ IdlePipeline /\ IdleAux

SpecGuard == InitGuardOnly /\ [][NextGuard]_vars

InitParseOnly == InitParse /\ IdleGuard /\ IdleKw /\ IdlePipeline /\ IdleAux

SpecParse == InitParseOnly /\ [][NextParse]_vars

InitKwOnly == InitKw /\ IdleGuard /\ IdleParse /\ IdlePipeline /\ IdleAux

SpecKw == InitKwOnly /\ [][NextKw]_vars

----------------------------------------------------------------------------
(* Properties of the webhook pipeline, checked under Spec.                 *)

IsMutation(c) == c.svc = "scm" /\ c.op \in MutatingOps

CountEvents(eventType) ==
    Cardinality({ i \in 1..Len(audit) : audit[i].eventType = eventType })

GuardRan == guardResult.reason # Absent \/ guardResult.allowed

\* C1: no branch, file write, pull request, promotion or comment request is
\* made unless the parsed list (the handler's and the one the submission
\* manager commits) is allowed by the guard; when the guard rejects, the run
\* ends with 403 carrying the reason and the blocked paths, exactly one
\* guard-blocked audit event exists, the validator has not run and the
\* submission manager has made no request.
C1_NoMutationWithoutGuard ==
    /\ (\E i \in 1..Len(calls) : IsMutation(calls[i]))
          => /\ validateFileChanges(fileChanges).allowed
             /\ validateFileChanges(submitChanges).allowed
             /\ \A i \in 1..Len(calls) :
                    calls[i].op = "putFile"
                        => \E k \in 1..Len(fileChanges) :
                               fileChanges[k].path = calls[i].path
    /\ (GuardRan /\ ~ validateFileChanges(fileChanges).allowed)
          => /\ pc = "done"
             /\ response.status = 403
             /\ response.reason = validateFileChanges(fileChanges).reason
             /\ response.blockedFiles
                    = validateFileChanges(fileChanges).blockedFiles
             /\ CountEvents("safety_guard_blocked") = 1
             /\ audit[Len(audit)].blockedFiles = response.blockedFiles
             /\ validation = NoValidation
             /\ submitChanges = <<>>
             /\ \A i \in 1..Len(calls) : ~ IsMutation(calls[i])
    /\ (GuardRan /\ validateFileChanges(fileChanges).allowed)
          => CountEvents("safety_guard_blocked") = 0

C1_Witness ==
    /\ pc = "done"
    /\ GuardRan
    /\ ~ guardResult.allowed
    /\ response.status = 403
    /\ Len(response.blockedFiles) = 4

\* C2: every pull request the submission manager opens is created in draft
\* state: each createPullRequest request asks for a draft, and a pull request
\* that exists and has not been promoted is a draft.
C2_PullRequestsOpenedAsDraft ==
    /\ \A i \in 1..Len(calls) :
          calls[i].op = "createPullRequest" => calls[i].draft = "true"
    /\ pc = "ci" => prState = "draft"

\* C3: markPRReadyForReview is requested only after the CI loop returned
\* success; after a failure or pending/timeout result no promotion request is
\* made and the pull request is still a draft when the pipeline responds.
C3_PromotionOnlyAfterSuccess ==
    /\ (\E i \in 1..Len(calls) : calls[i].op = "markPRReadyForReview")
          => ciResult = "success"
    /\ (pc = "done" /\ ciResult \in {"failure", "pending"})
          => /\ \A i \in 1..Len(calls) : calls[i].op # "markPRReadyForReview"
             /\ prState = "draft"

\* C9: a payload without an issue or fields object, or whose key, summary or
\* description is missing or empty, is answered with 400, and at no point of
\* that run is there an audit event or a request to the source-control or
\* generation service.
C9_IncompletePayloadRejected ==
    LET incomplete ==
            /\ payload.json
            /\ \/ payload.issue # "object"
               \/ payload.fields # "object"
               \/ payload.key \in {Absent, ""}
               \/ payload.summary \in {Absent, ""}
               \/ payload.description \in {Absent, ""}
    IN  (pc # "idle" /\ incomplete)
            => /\ audit = <<>>
               /\ calls = <<>>
               /\ pc \in {"start", "done"}
               /\ pc = "done" => response.status = 400

C9_Witness ==
    /\ pc = "done"
    /\ payload.fields = "object"
    /\ payload.key = "BUG-1"
    /\ payload.summary = "Null pointer in parser"
    /\ payload.description = ""
    /\ response.status = 400

----------------------------------------------------------------------------
(* Properties of the safety guard, checked under SpecGuard.                *)

\* C4: the guard allows a list exactly when it has at most 3 entries, no
\* path contains a denylist pattern (compared without regard to case), and
\* every path has no "..", no leading "/" and an allowed extension; so a
\* list of more than 3 entries is rejected whatever its paths, a one-entry
\* list under .github/ is rejected, and a two-entry list of legal paths that
\* are not denylisted is allowed.
C4_GuardAllowsIff ==
    LET denylist == { <<".","g","i","t","h","u","b","/">>,
                      <<"i","n","f","r","a","/">>,
                      <<"a","u","t","h","/">>,
                      <<"s","e","c","r","e","t","s">>,
                      <<".","e","n","v">>,
                      <<"p","a","c","k","a","g","e","-","l","o","c","k",".","j","s","o","n">>,
                      <<"y","a","r","n",".","l","o","c","k">>,
                      <<"p","n","p","m","-","l","o","c","k",".","y","a","m","l">> }
        extensions == { <<".","t","s">>, <<".","t","s","x">>, <<".","j","s">>, <<".","j","s","x">>, <<".","j","s","o","n">>, <<".","m","d">>, <<".","c","s","s">>, <<".","s","c","s","s">>, <<".","h","t","m","l">> }
        Denied(path) == \E d \in denylist : includes(toLowerCase(path), d)
        Legal(path) == /\ ~ includes(path, <<".",".">>)
                       /\ (path = <<>> \/ Head(path) # "/")
                       /\ \E e \in extensions : endsWith(path, e)
        Clean(list) == \A i \in 1..Len(list) :
                           ~ Denied(list[i].path) /\ Legal(list[i].path)
    IN  gPc \in {"validated", "guarded"}
            => /\ gResult.allowed <=> (Len(gList) <= 3 /\ Clean(gList))
               /\ Len(gList) > 3 => ~ gResult.allowed
               /\ (Len(gList) = 1
                     /\ startsWith(gList[1].path, <<".","g","i","t","h","u","b","/">>))
                       => ~ gResult.allowed
               /\ (Len(gList) = 2 /\ Clean(gList)) => gResult.allowed

C4_Witness ==
    /\ gPc = "validated"
    /\ Len(gList) = 2
    /\ gList[1].path = P_lib_a_ts
    /\ gList[2].path = P_b_css
    /\ gResult.allowed

\* C5: the enforcing call raises exactly when the checking call disallows
\* the same list, and no guard step changes the list, the audit log or the
\* record of requests to collaborators.
C5_GuardsAgree ==
    [][ /\ gList' = gList
        /\ audit' = audit
        /\ calls' = calls
        /\ gPc' = "guarded"
              => ((gOutcome' = "throws") <=> ~ gResult'.allowed) ]_vars

C5_Witness ==
    /\ gPc = "guarded"
    /\ gOutcome = "throws"
    /\ gResult.reason = ReasonInvalid

----------------------------------------------------------------------------
(* Properties of the output parser, checked under SpecParse.               *)

\* C6: every change the parser returns, for any input, has a path without
\* "..", without a leading "/", ending in .ts, .tsx, .js, .jsx, .json or
\* .md (the parser has no raising path: ApplyParse yields a list for every
\* input).
C6_ParsedPathsLegal ==
    LET extensions == { <<".","t","s">>, <<".","t","s","x">>, <<".","j","s">>, <<".","j","s","x">>, <<".","j","s","o","n">>, <<".","m","d">> }
    IN  pPc = "parsed"
            => \A i \in 1..Len(pOut) :
                   /\ ~ includes(pOut[i].path, <<".",".">>)
                   /\ pOut[i].path # <<>>
                   /\ Head(pOut[i].path) # "/"
                   /\ \E e \in extensions : endsWith(pOut[i].path, e)

C6_Witness ==
    /\ pPc = "parsed"
    /\ Len(pCandidates) = 2
    /\ Len(pOut) = 1
    /\ includes(pCandidates[1].path, <<".",".">>)

\* the segments are as the round trip requires: legal paths, and content
\* lines that are neither headers nor fence lines
SegmentsWellFormed ==
    /\ pSegs # <<>>
    /\ \A k \in 1..Len(pSegs) :
          /\ ParserPathValid(pSegs[k].path)
          /\ Len(pSegs[k].lines) >= 1
          /\ \A n \in 1..Len(pSegs[k].lines) :
                /\ ~ MatchesFileHeader(pSegs[k].lines[n])
                /\ ~ MatchesFenceHeader(pSegs[k].lines[n])
                /\ ~ IsFenceMarker(pSegs[k].lines[n])

\* C7: for a text of k >= 1 segments, each a `File: <path>` line followed by
\* one or more content lines, the parser returns exactly k changes, in input
\* order, with those paths, each content being the segment's lines joined
\* by newlines.
C7_SegmentsRoundTrip ==
    (pPc = "parsed" /\ SegmentsWellFormed)
        => /\ Len(pOut) = Len(pSegs)
           /\ \A k \in 1..Len(pSegs) :
                 /\ pOut[k].path = pSegs[k].path
                 /\ pOut[k].content = join(pSegs[k].lines)

C7_Witness ==
    /\ pPc = "parsed"
    /\ SegmentsWellFormed
    /\ Len(pSegs) = 2
    /\ Len(pSegs[1].lines) = 2
    /\ pSegs[1].path # pSegs[2].path
    /\ Len(pOut) = 2

\* C8: for an output that is non-empty after trimming there is at least one
\* candidate before the path filter (the whole trimmed output at
\* lib/ai-fix.ts when line scanning produced none), so the result is empty
\* only if the filter rejected every candidate.
C8_NonEmptyOutputHasCandidate ==
    LET scanned == Flush(ParseLines(ParseStart, split(pIn)))
        extensions == { <<".","t","s">>, <<".","t","s","x">>, <<".","j","s">>, <<".","j","s","x">>, <<".","j","s","o","n">>, <<".","m","d">> }
        Legal(path) == /\ ~ includes(path, <<".",".">>)
                       /\ (path = <<>> \/ Head(path) # "/")
                       /\ \E e \in extensions : endsWith(path, e)
    IN  (pPc = "parsed" /\ Len(trim(pIn)) > 0)
            => /\ Len(pCandidates) >= 1
               /\ scanned = <<>>
                     => pCandidates = <<[path |-> <<"l","i","b","/","a","i","-","f","i","x",".","t","s">>,
                                         content |-> trim(pIn)]>>
               /\ pOut = <<>>
                     => \A i \in 1..Len(pCandidates) :
                            ~ Legal(pCandidates[i].path)

C8_Witness ==
    /\ pPc = "parsed"
    /\ Len(trim(pIn)) > 0
    /\ Flush(ParseLines(ParseStart, split(pIn))) = <<>>
    /\ Len(pOut) = 1
    /\ pOut[1].content = trim(pIn)
    /\ Len(pIn) > Len(trim(pIn))

----------------------------------------------------------------------------
(* Properties of the keyword extractor, checked under SpecKw.              *)

\* the list is capped, duplicate-free, made of qualifying tokens of the
\* text, in the order of their first occurrence
KeywordsWellFormed ==
    LET Token(i) == toLowerCase(kTokens[i])
        Occurs(w) == \E i \in 1..Len(kTokens) : Token(i) = w
        First(w) == CHOOSE i \in 1..Len(kTokens) :
                        Token(i) = w /\ \A j \in 1..(i - 1) : Token(j) # w
    IN  /\ Len(kOut) <= 20
        /\ \A i, j \in 1..Len(kOut) : i # j => kOut[i] # kOut[j]
        /\ \A i \in 1..Len(kOut) :
              /\ Len(kOut[i]) > 3
              /\ \A n \in 1..Len(kOut[i]) : IsLower(kOut[i][n])
              /\ kOut[i] \notin stopWords
              /\ Occurs(kOut[i])
        /\ \A i \in 1..(Len(kOut) - 1) : First(kOut[i]) < First(kOut[i + 1])

\* C10: every extraction yields a list with no duplicates and at most 20
\* elements, each a lower-case purely alphabetic token of the text longer
\* than 3 characters that is not a stop word, in the order of first
\* occurrence in summary then description; a second extraction from the
\* same ticket yields the same list.
C10_KeywordsWellFormed ==
    [][ /\ KeywordsWellFormed'
        /\ kRuns' = 2 => kOut' = kOut ]_vars

C10_Witness ==
    /\ kRuns = 2
    /\ Len(kTokens) > 20
    /\ Len(kOut) = 20

----------------------------------------------------------------------------
(* Properties of the relevance scorer, checked under SpecScore.            *)

\* C11: the score of a path is 10 for every keyword that is a substring of
\* the lower-cased path plus 20 for every keyword that is a substring of its
\* final segment, and the score with one more keyword is never lower.
C11_ScoreIsSumAndMonotonic ==
    LET lower == toLowerCase(sPath)
        LastSlash == IF \E i \in 1..Len(lower) : lower[i] = "/"
                     THEN CHOOSE i \in 1..Len(lower) :
                              lower[i] = "/"
                              /\ \A j \in (i + 1)..Len(lower) : lower[j] # "/"
                     ELSE 0
        final == SubSeq(lower, LastSlash + 1, Len(lower))
        InPath == { i \in 1..Len(sKeywords) : includes(lower, sKeywords[i]) }
        InFinal == { i \in 1..Len(sKeywords) : includes(final, sKeywords[i]) }
    IN  /\ sPc \in {"scored", "rescored"}
              => sScore = 10 * Cardinality(InPath) + 20 * Cardinality(InFinal)
        /\ sPc = "rescored"
              => /\ sScoreMore >= sScore
                 /\ sScoreMore - sScore
                       = (IF includes(lower, sExtra) THEN 10 ELSE 0)
                         + (IF includes(final, sExtra) THEN 20 ELSE 0)

C11_Witness ==
    /\ sPc = "rescored"
    /\ sPath = F_Parser_index_ts
    /\ sKeywords = <<K_parser, K_auth>>
    /\ sExtra = K_index
    /\ sScore = 10
    /\ sScoreMore = 40

----------------------------------------------------------------------------
(* Properties of the pre-submission validator, checked under SpecVal.      *)

\* the counts of an opening and its closing delimiter differ
Unbalanced(content) ==
    \/ CountChar(content, "{") # CountChar(content, "}")
    \/ CountChar(content, "(") # CountChar(content, ")")
    \/ CountChar(content, "[") # CountChar(content, "]")

IsCodePath(path) ==
    \/ endsWith(path, <<".","t","s">>) \/ endsWith(path, <<".","t","s","x">>)
    \/ endsWith(path, <<".","j","s">>) \/ endsWith(path, <<".","j","s","x">>)

\* C12: a list with a code file (.ts, .tsx, .js, .jsx) whose content is
\* unbalanced is refused (success = false) with an error entry that names
\* that file (the files having been written for validation).
C12_UnbalancedCodeFileRefused ==
    (vPc = "validated" /\ vEnv.fsOk)
        => \A i \in 1..Len(vChanges) :
              (IsCodePath(vChanges[i].path) /\ Unbalanced(vChanges[i].content))
                  => /\ ~ vResult.success
                     /\ \E e \in 1..Len(vResult.errors) :
                            vResult.errors[e].file = vChanges[i].path

\* C13: when every code file is balanced and the files could be written for
\* validation, the result is success = true with no errors, whether or not
\* the type-checker and the linter are found; a tool that is not found shows
\* only as a warning.
C13_MissingToolsOnlyWarn ==
    (/\ vPc = "validated"
     /\ vEnv.fsOk
     /\ \A i \in 1..Len(vChanges) :
            IsCodePath(vChanges[i].path) => ~ Unbalanced(vChanges[i].content))
        => /\ vResult.success
           /\ vResult.errors = <<>>
           /\ (~ vEnv.eslint /\ \E i \in 1..Len(vChanges) :
                                    IsCodePath(vChanges[i].path))
                 => \E w \in 1..Len(vResult.warnings) :
                        vResult.warnings[w]
                            = "ESLint not available - lint check skipped"

C13_Witness ==
    /\ vPc = "validated"
    /\ vEnv = [fsOk |-> TRUE, tsc |-> FALSE, eslint |-> FALSE]
    /\ Len(vChanges) = 2
    /\ \A i \in 1..2 : /\ IsCodePath(vChanges[i].path)
                        /\ ~ Unbalanced(vChanges[i].content)
    /\ vChanges[1].path = P_lib_a_ts
    /\ vResult.success
    /\ Len(vResult.warnings) = 2

----------------------------------------------------------------------------
(* Properties of the CI reconciliation loop, checked under SpecCI.         *)

\* C14: when the check runs become all completed and successful before
\* maxWaitTime has elapsed (the combined status staying pending and every
\* poll being answered OK and at once), the loop returns success, before the
\* deadline.
C14_SuccessWithinWindow ==
    (/\ wPc = "returned"
     /\ wState = "pending"
     /\ wClean
     /\ wPassedAt # NoTime
     /\ wPassedAt < wMaxWait)
        => /\ wResult = "success"
           /\ wReturnedAt < wMaxWait

\* C15: when the check runs never complete (and the combined status stays
\* pending), the loop returns pending, and it returns when exactly
\* maxWaitTime has elapsed since the start.
C15_PendingExactlyAtDeadline ==
    (/\ wPc = "returned"
     /\ wState = "pending"
     /\ ~ allCompleted(wRuns))
        => /\ wResult = "pending"
           /\ wReturnedAt = wMaxWait

\* C18: a poll with a rejected fetch or a non-OK response ends in a verdict
\* of success or failure or in a wait of one poll interval before the next
\* round, never in an error; a poll whose pull-request request failed always
\* waits; the result is success, failure or pending, and pending only once
\* maxWaitTime has elapsed.
C18_PollErrorsNeverEscalate ==
    [][ /\ (wPc = "poll" /\ wPc' # "poll")
              => /\ wPc' \in {"sleep", "returned"}
                 /\ wPc' = "sleep"
                       => (wSleep' = POLL_INTERVAL /\ wResult' = Absent)
                 /\ (\/ wLastPoll'[1] # "ok"
                     \/ wLastPoll'[2] = "throws"
                     \/ (wLastPoll'[3] = "throws"
                            /\ ~ (wLastPoll'[2] = "ok" /\ wState # "pending")))
                       => wPc' = "sleep"
        /\ wPc' = "returned"
              => /\ wResult' \in {"success", "failure", "pending"}
                 /\ wResult' = "pending" => wNow' >= wMaxWait
        /\ (wPc = "sleep" /\ wPc' = "check") => wNow' - wNow <= POLL_INTERVAL
      ]_vars

C18_Witness ==
    /\ wPc = "returned"
    /\ wResult = "pending"
    /\ wLastPoll = <<"throws", "ok", "ok">>
    /\ wMaxWait = ROUTE_MAX_WAIT
    /\ wReturnedAt = ROUTE_MAX_WAIT
    /\ Len(wRuns) > 0 /\ allPassed(wRuns)

----------------------------------------------------------------------------
(* Further properties of the webhook pipeline, checked under Spec.         *)

\* the run ended on a request of the submission manager (base ref read,
\* branch creation, file write, pull-request creation) that failed
SubmissionRaised ==
    /\ pc = "done"
    /\ Len(calls) > 0
    /\ calls[Len(calls)].op
          \in {"getRef", "createBranch", "putFile", "createPullRequest"}
    /\ ~ calls[Len(calls)].ok

\* C16: when a step of the submission manager raises, the answer is the
\* success response (200, ai_generated) with pr_error set and no pull-request
\* number, the CI loop has not been entered, and exactly one
\* operation-failed audit event exists.
C16_SubmissionFailureKeepsFix ==
    SubmissionRaised
        => /\ response.status = 200
           /\ response.token = "ai_generated"
           /\ response.pr_error # Absent
           /\ response.pr_error = prError
           /\ response.pr_number = 0
           /\ response.ci_status = Absent
           /\ ciResult = Absent
           /\ \A i \in 1..Len(calls) :
                 calls[i].op \notin {"getStatus", "markPRReadyForReview",
                                     "addPRComment"}
           /\ CountEvents("operation_failed") = 1
           /\ CountEvents("pull_request_created") = 0
           /\ audit[Len(audit)].failedEventType = "pull_request_created"

C16_Witness ==
    /\ SubmissionRaised
    /\ calls[Len(calls)].op = "putFile"
    /\ Len(branchFiles) = 1
    /\ Len(submitChanges) = 2
    /\ response.pr_error = "Failed to update file"

\* the validator has returned its result to the handler
ValidationRan == validation # NoValidation

\* C17: a validation result with success = false ends the run with 400 and
\* the error list, without any branch, file-write or pull-request request; a
\* result with success = true lets the run go on to submission whatever its
\* warnings; and success is false exactly when the error list is non-empty.
C17_ErrorsBlockWarningsDoNot ==
    ValidationRan
        => /\ validation.success <=> (validation.errors = <<>>)
           /\ ~ validation.success
                 => /\ pc = "done"
                    /\ response.status = 400
                    /\ response.validationErrors = validation.errors
                    /\ Len(response.validationErrors) >= 1
                    /\ \A i \in 1..Len(calls) : ~ IsMutation(calls[i])
           /\ validation.success
                 => /\ pc \in {"submit", "commit", "openpr", "ci", "promote",
                               "comment", "done"}
                    /\ pc = "done" => response.status = 200
                    /\ (pc # "submit" /\ fileChanges # <<>>)
                          => \E i \in 1..Len(calls) : calls[i].op = "getRef"

C17_Witness ==
    /\ ValidationRan
    /\ ~ validation.success
    /\ validation.errors[1].error = "Unmatched parentheses"
    /\ response.status = 400

----------------------------------------------------------------------------
(* Properties of the context assembler, checked under SpecCtx.             *)

\* what getCodeContext has returned: nothing after a failed tree fetch,
\* otherwise the selected files whose fetch did not fail, in order, every
\* selected file having been tried; at most 3 entries, each of at most 8000
\* characters plus the marker
ContextWellFormed ==
    cPc \in {"returned", "generating"}
        => /\ Len(cContexts) <= 3
           /\ \A i \in 1..Len(cContexts) : cContexts[i].content <= 8000 + 19
           /\ cTreeOutcome # "ok" => cContexts = <<>>
           /\ cTreeOutcome = "ok"
                 => LET fetched == SelectSeq([i \in 1..Len(cSelected) |-> i],
                                             LAMBDA i : i \notin cFailed)
                    IN  /\ cIndex = Len(cSelected) + 1
                        /\ Len(cContexts) = Len(fetched)
                        /\ \A k \in 1..Len(fetched) :
                              cContexts[k].filename = cSelected[fetched[k]].path

\* C19: getCodeContext always returns: a failed content fetch leaves out only
\* that file, a failed repository or tree fetch gives the empty list, the
\* list has at most 3 entries of at most 8000 characters plus the truncation
\* marker; and from every return the handler goes on to prompt building and
\* generation with that list.
C19_ContextNeverFails ==
    [][ /\ ContextWellFormed'
        /\ cPc = "returned" => (cPc' = "generating" /\ cContexts' = cContexts)
        /\ cPc \in {"start", "fetching"} => cPc' \in {"fetching", "returned"}
      ]_vars

C19_Witness ==
    /\ cPc = "generating"
    /\ Len(cTree) = 4
    /\ Len(cSelected) = 3
    /\ cFailed = {2}
    /\ Len(cContexts) = 2
    /\ cContexts[2].filename = cSelected[3].path
    /\ cContexts[2].content = 8019

----------------------------------------------------------------------------
(* Properties of the audit entries, checked under SpecAudit.               *)

\* the text an entry of a run was logged for: the prompt for the first
\* entry, the generated output for the second
LoggedText(r, i) == IF i = 1 THEN aPrompt[r] ELSE aOutput[r]

\* C20: the prompt-sent and output-received entries carry a 16-digit hash
\* and the length of the text and nothing else; no field of an entry holds
\* the raw text; and two runs for one ticket whose texts have the same hash
\* and the same length carry the same metadata.
C20_AuditCarriesHashAndLength ==
    /\ \A r \in DOMAIN aLog : \A i \in 1..Len(aLog[r]) :
          LET entry == aLog[r][i]
              text == LoggedText(r, i)
              hashField == IF i = 1 THEN "promptHash" ELSE "outputHash"
              lengthField == IF i = 1 THEN "promptLength" ELSE "outputLength"
          IN  /\ DOMAIN entry.metadata = {hashField, lengthField}
              /\ Len(entry.metadata[hashField]) = 16
              /\ entry.metadata[lengthField] = Len(text)
              /\ DOMAIN entry = {"ticketKey", "timestamp", "eventType",
                                 "status", "metadata"}
              /\ entry.metadata[hashField] # text
              /\ entry.ticketKey = aKey
    /\ \A r, q \in DOMAIN aLog : \A i \in 1..Len(aLog[r]) :
          (/\ i <= Len(aLog[q])
           /\ Len(LoggedText(r, i)) = Len(LoggedText(q, i))
           /\ aLog[r][i].metadata = aLog[q][i].metadata)
              <=> (/\ i <= Len(aLog[q])
                   /\ Len(LoggedText(r, i)) = Len(LoggedText(q, i))
                   /\ hashData(LoggedText(r, i)) = hashData(LoggedText(q, i)))

C20_Witness ==
    /\ aPc = [r \in Runs |-> "generated"]
    /\ aPrompt[1] = A_fix_ab
    /\ aPrompt[2] = A_fix_ba
    /\ aOutput[1] = A_fix_abc
    /\ aOutput[2] = A_fix_ab
    /\ aLog[1][1].metadata = aLog[2][1].metadata
    /\ aLog[1][2].metadata # aLog[2][2].metadata
    /\ aLog[1][1].timestamp # aLog[2][1].timestamp

----------------------------------------------------------------------------
(* Rule order of the guard, checked under SpecGuard.                       *)

\* C21: the guard reports the first failing rule only. A list of more than
\* 3 changes is refused for its count with all of its paths, whatever the
\* paths are; otherwise a list with a denylisted path is refused with
\* exactly the denylisted paths; otherwise a list with a malformed path is
\* refused with exactly the malformed paths.
C21_FirstFailingRuleWins ==
    gPc # "start" =>
        LET paths == PathsOf(gList)
            denylisted == SelectSeq(paths, isPathBlocked)
            malformed == SelectSeq(paths, GuardPathInvalid)
        IN  /\ Len(gList) > 3
                => gResult = [allowed |-> FALSE, reason |-> ReasonCount,
                              blockedFiles |-> paths]
            /\ (Len(gList) <= 3 /\ denylisted # <<>>)
                => gResult = [allowed |-> FALSE, reason |-> ReasonBlocked,
                              blockedFiles |-> denylisted]
            /\ (Len(gList) <= 3 /\ denylisted = <<>> /\ malformed # <<>>)
                => gResult = [allowed |-> FALSE, reason |-> ReasonInvalid,
                              blockedFiles |-> malformed]

C21_Witness ==
    /\ gPc = "validated"
    /\ Len(gList) = 4
    /\ gList[1].path = P_lib_a_ts
    /\ gList[2].path = P_github_w_md
    /\ gList[3].path = P_up_a_ts
    /\ gResult.reason = ReasonCount
    /\ Len(gResult.blockedFiles) = 4

C21_WitnessMixed ==
    /\ gPc = "validated"
    /\ Len(gList) = 3
    /\ gList[1].path = P_up_a_ts
    /\ gList[2].path = P_yarn_lock
    /\ gList[3].path = P_GitHub_a_ts
    /\ gResult.blockedFiles = <<P_yarn_lock, P_GitHub_a_ts>>

----------------------------------------------------------------------------
(* Fence lines and the default path of the parser, checked under           *)
(* SpecParse.                                                              *)

\* the lines of a text that are not fence delimiter lines
NonFenceLines(text) ==
    LET Kept(line) == ~ IsFenceMarker(line)
    IN  SelectSeq(split(text), Kept)

\* C22: no content returned by the parser holds a fence delimiter line (a
\* line whose trimmed text starts with three backquotes).
C22_NoFenceLineInContent ==
    pPc = "parsed" =>
        \A i \in 1..Len(pOut) :
            \A k \in 1..Len(split(pOut[i].content)) :
                ~ IsFenceMarker(split(pOut[i].content)[k])

\* no line of the text is a File: header or a fence line followed by text
DeclaresNoPath(text) ==
    \A k \in 1..Len(split(text)) :
        /\ ~ MatchesFileHeader(split(text)[k])
        /\ ~ MatchesFenceHeader(split(text)[k])

\* C23: when the output declares no path and some line contains import,
\* export or function, the parser returns one change at lib/fix.ts whose
\* content holds every non-fence line of the output.
C23_DefaultPathKeepsEveryLine ==
    (/\ pPc = "parsed"
     /\ DeclaresNoPath(pIn)
     /\ \E k \in 1..Len(split(pIn)) : LooksLikeCode(split(pIn)[k]))
        => pOut = <<[path |-> DEFAULT_PATH,
                     content |-> join(NonFenceLines(pIn))]>>

\* a fence opener that carries a language tag only: three backquotes and
\* then word characters to the end of the line
IsLanguageFence(line) ==
    /\ startsWith(line, S_fence)
    /\ Len(line) > 3
    /\ WordPrefixLen(AfterPrefix(line, 3)) = Len(line) - 3

\* C24: a fence opener that carries only a language tag is dropped by the
\* scan: the current path, the collected content and the result list are
\* the same after the line as before it.
C24_LanguageFenceIsPureDelimiter ==
    pPc = "parsed" =>
        \A k \in 1..Len(split(pIn)) :
            IsLanguageFence(split(pIn)[k]) =>
                LET before == ParseLines(ParseStart,
                                         SubSeq(split(pIn), 1, k - 1))
                IN  ParseLine(before, split(pIn)[k]) = before

----------------------------------------------------------------------------
(* Order of de-duplication and cap in the keyword extractor, checked       *)
(* under SpecKw.                                                           *)

\* C25: when the ticket text holds at least 20 distinct qualifying tokens,
\* the extractor returns exactly 20 keywords: the first 20 distinct
\* qualifying tokens, in the order of their first occurrence, whether or
\* not earlier qualifying tokens are repeated.
C25_DedupeBeforeCap ==
    LET Token(i) == toLowerCase(kTokens[i])
        Qualifies(w) ==
            Len(w) > 3 /\ w \notin stopWords /\ \A n \in 1..Len(w) : IsLower(w[n])
        FirstSeen == { i \in 1..Len(kTokens) :
                          /\ Qualifies(Token(i))
                          /\ \A j \in 1..(i - 1) : Token(j) # Token(i) }
        Rank(i) == Cardinality({ j \in FirstSeen : j <= i })
    IN  (kPc = "extracted" /\ Cardinality(FirstSeen) >= 20)
            => /\ Len(kOut) = 20
               /\ \A i \in FirstSeen : Rank(i) <= 20 => kOut[Rank(i)] = Token(i)

----------------------------------------------------------------------------
(* Selection order of the context assembler, checked under SpecCtx.        *)

\* the selection is the eligible files of the tree (blobs with a code
\* extension that are not ignored) by descending score, equal scores in
\* listing order, cut to three
SelectionIsTopThree ==
    LET Eligible == { i \in 1..Len(cTree) :
                        /\ cTree[i].type = "blob"
                        /\ \E e \in { <<".","t","s">>, <<".","t","s","x">>,
                                      <<".","j","s">>, <<".","j","s","x">> } :
                               endsWith(cTree[i].path, e)
                        /\ ~ shouldIgnoreFile(cTree[i].path) }
    IN  \A keywords \in {extractKeywords(cTicket)} :
            LET Score(i) == scoreFile(cTree[i].path, keywords)
                Before(j, i) ==
                    Score(j) > Score(i) \/ (Score(j) = Score(i) /\ j < i)
                Place(i) == 1 + Cardinality({ j \in Eligible : Before(j, i) })
            IN  /\ Len(cSelected) = IF Cardinality(Eligible) < 3
                                    THEN Cardinality(Eligible) ELSE 3
                /\ Eligible # {} => Len(cSelected) >= 1
                /\ \A i \in Eligible :
                      Place(i) <= 3 =>
                          cSelected[Place(i)] = [path |-> cTree[i].path,
                                                 score |-> Score(i)]

\* the entries collected so far are in the order of the selection
ContextsFollowSelection ==
    LET PlaceOf(filename) ==
            CHOOSE k \in 1..Len(cSelected) : cSelected[k].path = filename
    IN  /\ \A a \in 1..Len(cContexts) :
              \E k \in 1..Len(cSelected) :
                  cSelected[k].path = cContexts[a].filename
        /\ \A a, b \in 1..Len(cContexts) :
              a < b => PlaceOf(cContexts[a].filename)
                           < PlaceOf(cContexts[b].filename)

\* C26: the selection is the first three eligible files of the tree by
\* descending score, equal scores in listing order; a score of 0 is
\* eligible, so one eligible file is enough for a non-empty selection; the
\* selection does not change once made, and the returned entries follow
\* its order.
C26_TopThreeInStableOrder ==
    /\ []((cTreeOutcome = "ok" /\ cContexts = <<>> /\ cFailed = {})
              => SelectionIsTopThree)
    /\ []ContextsFollowSelection
    /\ [][cPc # "start" => cSelected' = cSelected]_vars

C26_Witness ==
    /\ cPc = "returned"
    /\ Len(cTree) = 4
    /\ Len(cSelected) = 3
    /\ cSelected[1].path = cTree[4].path
    /\ cSelected[1].score > 0
    /\ cSelected[2] = [path |-> cTree[1].path, score |-> 0]
    /\ cSelected[3] = [path |-> cTree[3].path, score |-> 0]
    /\ cFailed = {2}
    /\ Len(cContexts) = 2
    /\ cContexts[2].filename = cTree[3].path

----------------------------------------------------------------------------
(* Properties of the error-signal extractor, checked under SpecErr.        *)

\* the result of the first pattern of a family that matches
FirstOfFamily(ms) ==
    IF \E k \in 1..Len(ms) : ms[k].found
    THEN ms[CHOOSE k \in 1..Len(ms) :
                ms[k].found /\ \A n \in 1..(k - 1) : ~ ms[n].found]
    ELSE NoMatch

\* C27: in each pattern family (stack trace, error message, test failure)
\* the field comes from the first pattern of the family that matches and
\* from that pattern alone; when no pattern matches at all the record is
\* empty.
C27_FirstMatchPerFamilyWins ==
    ePc # "start" =>
        LET stack == FirstOfFamily(<<StackPattern1(eDescription),
                                     StackPattern2(eDescription),
                                     StackPattern3(eDescription)>>)
            message == FirstOfFamily(<<MessagePattern1(eDescription),
                                       MessagePattern2(eDescription),
                                       MessagePattern3(eDescription)>>)
            test == FirstOfFamily(<<TestPattern1(eDescription),
                                    TestPattern2(eDescription),
                                    TestPattern3(eDescription),
                                    TestPattern4(eDescription)>>)
        IN  /\ eInfo.stackTrace.isSet = stack.found
            /\ stack.found => eInfo.stackTrace.val = stack.whole \o <<"\n">>
            /\ eInfo.errorMessage.isSet = message.found
            /\ message.found =>
                  eInfo.errorMessage.val = IF message.group # <<>>
                                           THEN message.group ELSE message.whole
            /\ eInfo.testFailure.isSet = test.found
            /\ test.found =>
                  eInfo.testFailure.val = IF test.group # <<>>
                                          THEN test.group ELSE test.whole
            /\ (/\ ~ stack.found /\ ~ message.found /\ ~ test.found
                /\ ~ FileLinePattern(eDescription).found
                /\ ~ ErrorTypePattern(eDescription).found)
                  => eInfo = EmptyInfo

\* C28: the flag error_info_extracted of the final response is true exactly
\* when the extraction set at least one of errorType, errorMessage,
\* stackTrace, testFailure, filePath and lineNumber.
C28_FlagIffAnyFieldFound ==
    ePc = "responded" =>
        (eFlag <=> \/ eInfo.errorType.isSet
                   \/ eInfo.errorMessage.isSet
                   \/ eInfo.stackTrace.isSet
                   \/ eInfo.testFailure.isSet
                   \/ eInfo.filePath.isSet
                   \/ eInfo.lineNumber.isSet)

----------------------------------------------------------------------------
(* What the validator may block on, checked under Spec.                    *)

\* the errors of a detected delimiter imbalance
ImbalanceErrors ==
    { "Unmatched braces", "Unmatched parentheses", "Unmatched brackets" }

\* C29: the validator blocks submission for a content defect only. A
\* result with success = false names a delimiter imbalance of some file,
\* and so does every 400 validation-failed response; a failure to write the
\* temporary files or a missing tool never ends the run with that response.
C29_OnlyContentDefectsBlock ==
    /\ (ValidationRan /\ ~ validation.success)
          => \E i \in 1..Len(validation.errors) :
                 validation.errors[i].error \in ImbalanceErrors
    /\ (pc = "done" /\ response.status = 400
            /\ response.error = "Code validation failed")
          => \E i \in 1..Len(response.validationErrors) :
                 response.validationErrors[i].error \in ImbalanceErrors

-----------------------------------------------------------------------------
(* Claim C30 (SpecBranch).                                                 *)

BranchFinished(p) == bPc[p] \in {"returned", "raised", "committed"}

BranchReturned(p) == bPc[p] \in {"returned", "committed"}

-----------------------------------------------------------------------------
(* Claims C31 to C33 (SpecCI).                                             *)

\* the step is one round of the loop body of waitForCIChecks
PollStep == wPc = "poll" /\ wPc' # "poll"

SomeRunNotCompleted ==
    \E i \in 1..Len(wRuns) : wRuns[i].status # "completed"

AllRunsSucceeded ==
    /\ Len(wRuns) > 0
    /\ \A i \in 1..Len(wRuns) :
          wRuns[i].status = "completed" /\ wRuns[i].conclusion = "success"

\* C31: a poll returns success only if, at that poll, the combined status is
\* success or there is at least one check run and every check run is
\* completed with conclusion success; a poll at which no check run is
\* reported or some run is not completed, and the combined status is none of
\* success, failure and error, returns nothing: the loop waits one poll
\* interval and comes back to its test.
C31_SuccessNeedsEvidence ==
    [][PollStep =>
         /\ (wResult' = "success")
               => (wState = "success" \/ AllRunsSucceeded)
         /\ ((Len(wRuns) = 0 \/ SomeRunNotCompleted)
                /\ wState \notin {"success", "failure", "error"})
               => /\ wPc' = "sleep"
                  /\ wSleep' = POLL_INTERVAL
                  /\ wResult' = Absent
                  /\ wReturnedAt' = NoTime]_vars

\* the second poll of a call, all three requests answered, found a pending
\* combined status and a running check, and the loop is waiting again
C31_Witness ==
    /\ wPc = "sleep"
    /\ wSleep = POLL_INTERVAL
    /\ wNow = POLL_INTERVAL
    /\ wLastPoll = <<"ok", "ok", "ok">>
    /\ wState = "pending"
    /\ SomeRunNotCompleted
    /\ wResult = Absent

SomeCompletedRunFailed ==
    \E i \in 1..Len(wRuns) :
        /\ wRuns[i].status = "completed"
        /\ wRuns[i].conclusion \in {"failure", "error"}

\* C32: a poll whose three requests are answered, at which some completed
\* check run has conclusion failure or error or the combined status is
\* failure or error, returns failure at that poll, other runs being in
\* progress or not, and does not return success.
C32_FailureReturnedAtOnce ==
    [][(PollStep /\ wLastPoll' = <<"ok", "ok", "ok">>
          /\ (SomeCompletedRunFailed \/ wState \in {"failure", "error"}))
         => /\ wPc' = "returned"
            /\ wResult' = "failure"]_vars

\* C33: whatever the service answers (success, failure, errors at every
\* request, checks that never complete), waitForCIChecks returns; it has a
\* result exactly when it has returned, and after the return the result is
\* never replaced and no request is made and no timer runs.
C33_TerminatesWithOneResult ==
    /\ <>(wPc = "returned")
    /\ [](wPc = "returned" <=> wResult # Absent)
    /\ [][wResult # Absent
            => UNCHANGED <<wPc, wResult, wReturnedAt, wLastPoll, wNow,
                           wSleep>>]_vars

\* a call whose every request was rejected and whose check never completed
\* has returned pending at the deadline
C33_Witness ==
    /\ wPc = "returned"
    /\ wResult = "pending"
    /\ wLastPoll = <<"throws", "throws", "throws">>
    /\ wReturnedAt >= wMaxWait
    /\ SomeRunNotCompleted

-----------------------------------------------------------------------------
(* Claims C34 to C40 (Spec, the pipeline).                                 *)

\* a request of the CI stage that failed
CIStageCallFailed ==
    \E i \in 1..Len(calls) :
        /\ calls[i].op \in {"markPRReadyForReview", "addPRComment"}
        /\ ~ calls[i].ok

\* waitForCIChecks was called and threw: the handler is past the call
\* without a result
CILoopRaised ==
    /\ prNumber # 0
    /\ pc = "done"
    /\ ciResult = Absent

\* the final response still reports the generation and the pull request
ReportsPullRequest ==
    /\ response.status = 200
    /\ response.token = "ai_generated"
    /\ response.pr_number = prNumber
    /\ response.pr_url = PullRequestUrl(prNumber)
    /\ response.pr_url # Absent
    /\ response.pr_error = Absent

\* C34: when markPRReadyForReview, addPRComment or waitForCIChecks raises, the
\* response carries ci_status 'error' and is still the ai_generated response
\* with pr_url and pr_number set and pr_error unset; once the pull request is
\* opened, no outcome of the CI stage changes the status token or removes the
\* pull-request fields, and ci_status is the CI result unless a step raised.
C34_CIErrorsDegradeOnly ==
    /\ (pc = "done" /\ (CIStageCallFailed \/ CILoopRaised))
          => /\ response.ci_status = "error"
             /\ ciStatus = "error"
             /\ ReportsPullRequest
    /\ (pc = "done" /\ prNumber # 0)
          => /\ ReportsPullRequest
             /\ response.ci_status = ciStatus
             /\ ciStatus \in {"success", "failure", "pending", "error"}
             /\ (ciStatus # "error") => ciStatus = ciResult

\* CI succeeded, the promotion request failed, and the run has responded
C34_Witness ==
    /\ pc = "done"
    /\ ciResult = "success"
    /\ \E i \in 1..Len(calls) :
          calls[i].op = "markPRReadyForReview" /\ ~ calls[i].ok
    /\ response.ci_status = "error"
    /\ response.pr_number = 7
    /\ response.pr_error = Absent

PendingCommentPosted ==
    \E i \in 1..Len(calls) : calls[i].op = "addPRComment" /\ calls[i].ok

PromotionRequested ==
    \E i \in 1..Len(calls) :
        calls[i].op = "markPRReadyForReview" /\ calls[i].ok

\* C35: once the handler has responded with ci_status pending, the pending
\* comment being posted, and all checks of the pull request have then
\* succeeded, a request that marks the pull request ready for review is
\* eventually made.
C35_PendingPromotedLater ==
    (pc = "done" /\ ciStatus = "pending" /\ PendingCommentPosted
        /\ lChecksPassed)
      ~> PromotionRequested

\* C36 (SpecTmp): concurrent runs do not affect each other: a run's
\* validation result is the one it produces alone, with a writable
\* temporary directory, and a file a run has written is removed or replaced
\* only by a step of that run.
C36_ConcurrentRunsIndependent ==
    /\ [](\A r \in TmpRuns :
            tPc[r] = "returned"
              => tResult[r] = validateGeneratedCode(tChanges[r], AvailableEnv))
    /\ [][\A f \in tFsFiles :
            f \notin tFsFiles' => tPc'[f.owner] # tPc[f.owner]]_vars

\* the paths of the successful file-write requests, in request order
WrittenPaths ==
    LET writes == SelectSeq(calls, LAMBDA c : c.op = "putFile" /\ c.ok)
    IN  [i \in 1..Len(writes) |-> writes[i].path]

\* C37: the list createPRFromAICode commits is the list the handler parsed
\* from the same generated text and passed to the safety guard and the
\* validator: the guard's verdict and the validation result in the state are
\* those of that list, every file-write request names a path of it, and the
\* paths written are its first paths in list order.
C37_CommittedListIsCheckedList ==
    /\ pc \in {"validating", "submit", "commit", "openpr", "ci", "promote",
               "comment"}
          => /\ fileChanges = parseAICodeOutput(generatedCode)
             /\ guardResult = validateFileChanges(fileChanges)
             /\ guardResult.allowed
    /\ pc \in {"commit", "openpr", "ci", "promote", "comment"}
          => /\ submitChanges = fileChanges
             /\ \E env \in ValidationEnvs :
                    validation = validateGeneratedCode(submitChanges, env)
             /\ validation.success
    /\ submitChanges # <<>> => submitChanges = fileChanges
    /\ \A i \in 1..Len(calls) :
          calls[i].op = "putFile"
             => \E j \in 1..Len(fileChanges) :
                    calls[i].path = fileChanges[j].path
    /\ Len(WrittenPaths) <= Len(fileChanges)
    /\ \A i \in 1..Len(WrittenPaths) : WrittenPaths[i] = fileChanges[i].path

\* the text with one refused and one accepted candidate went through the
\* guard and the validator as a one-file list, and that file was written
C37_Witness ==
    /\ generatedCode = O_mixed
    /\ Len(fileChanges) = 1
    /\ submitChanges = fileChanges
    /\ WrittenPaths = <<fileChanges[1].path>>
    /\ pc = "done"
    /\ prNumber # 0

NO_CHANGES_MESSAGE == "No valid file changes found in AI output"

\* C38: when the parser returns no file change (a whitespace-only text, or
\* every candidate refused by the path filter), the guard allows the empty
\* list and the validator reports success, no request is sent to the
\* source-control service for a branch, a file, a pull request or its
\* checks, and the response is the ai_generated one with pr_error set and
\* neither pr_url nor pr_number.
C38_EmptyListFailsAtSubmission ==
    (generatedCode # <<>> /\ parseAICodeOutput(generatedCode) = <<>>)
      => /\ fileChanges = <<>>
         /\ guardResult.allowed
         /\ pc \notin {"generating", "validating"}
               => /\ validation.success
                  /\ validation.errors = <<>>
         /\ pc \in {"validating", "submit", "done"}
         /\ \A i \in 1..Len(calls) :
               calls[i].op \notin MutatingOps \cup {"getRef", "getStatus"}
         /\ submitChanges = <<>> /\ branchFiles = <<>> /\ prNumber = 0
         /\ pc = "done"
               => /\ response.status = 200
                  /\ response.token = "ai_generated"
                  /\ response.pr_error = NO_CHANGES_MESSAGE
                  /\ prError = NO_CHANGES_MESSAGE
                  /\ response.pr_url = Absent
                  /\ response.pr_number = 0
                  /\ response.ci_status = Absent

\* the run whose generated text held one candidate, refused by the path
\* filter, has responded
C38_Witness ==
    /\ generatedCode = O_filtered
    /\ ParseCandidates(generatedCode) # <<>>
    /\ fileChanges = <<>>
    /\ pc = "done"
    /\ response.pr_error = NO_CHANGES_MESSAGE

\* C39: every change the handler obtained from the parser has a path without
\* "..", without a leading "/", and with an extension of the guard's set,
\* which contains the parser's set; so a parsed list that the guard rejects
\* is rejected for its count or for a denylisted path, never for its path
\* format.
C39_ParsedPathsPassFormatRule ==
    /\ ParserExtensions \subseteq GuardExtensions
    /\ \A i \in 1..Len(fileChanges) :
          /\ ~ includes(fileChanges[i].path, <<".",".">>)
          /\ ~ startsWith(fileChanges[i].path, <<"/">>)
          /\ \E e \in GuardExtensions : endsWith(fileChanges[i].path, e)
          /\ ~ GuardPathInvalid(fileChanges[i].path)
    /\ (generatedCode # <<>> /\ ~ guardResult.allowed)
          => /\ guardResult.reason \in {ReasonCount, ReasonBlocked}
             /\ guardResult = validateFileChanges(fileChanges)
             /\ pc = "done"
             /\ response.status = 403
             /\ response.reason = guardResult.reason

\* a parsed one-file list under .github/ was rejected by the denylist
C39_Witness ==
    /\ generatedCode = O_github
    /\ Len(fileChanges) = 1
    /\ ~ guardResult.allowed
    /\ guardResult.reason = ReasonBlocked
    /\ pc = "done"

\* the paths of the file-write requests made so far, in request order
PutFileRequests == SelectSeq(calls, LAMBDA c : c.op = "putFile")

\* the file-write requests that the repository service accepted
AcceptedWrites == SelectSeq(PutFileRequests, LAMBDA c : c.ok)

\* a file write of the commit loop was refused
FileWriteFailed == \E i \in 1..Len(PutFileRequests) : ~ PutFileRequests[i].ok

\* C40: commitChanges writes the changes one at a time in list order and
\* stops at the first failed write: the k-th write request is for the k-th
\* change of the list, the files on the branch are exactly the accepted
\* writes, a refused write is the last request of the run (no later file is
\* written, no pull request is requested, the answer carries pr_error and no
\* pull-request number), and no step ever takes a written file off the
\* branch.
C40_CommitStopsAtFirstFailure ==
    /\ [](/\ Len(PutFileRequests) <= Len(submitChanges)
          /\ \A k \in 1..Len(PutFileRequests) :
                PutFileRequests[k].path = submitChanges[k].path
          /\ Len(branchFiles) = Len(AcceptedWrites)
          /\ \A k \in 1..Len(branchFiles) :
                /\ branchFiles[k] = AcceptedWrites[k].path
                /\ branchFiles[k] = submitChanges[k].path
          /\ \A i \in 1..Len(calls) :
                (calls[i].op = "putFile" /\ ~ calls[i].ok)
                   => /\ i = Len(calls)
                      /\ pc = "done"
                      /\ Len(branchFiles) = Len(PutFileRequests) - 1
                      /\ prNumber = 0
                      /\ prState = "none"
                      /\ response.pr_error = "Failed to update file"
                      /\ response.pr_url = Absent
                      /\ response.pr_number = 0
          /\ (\E i \in 1..Len(calls) : calls[i].op = "createPullRequest")
                => Len(branchFiles) = Len(submitChanges))
    /\ [][/\ Len(branchFiles') >= Len(branchFiles)
          /\ SubSeq(branchFiles', 1, Len(branchFiles)) = branchFiles]_vars

\* the second of three writes was refused: the first file is on the branch,
\* the third was never requested
C40_Witness ==
    /\ generatedCode = O_three
    /\ Len(submitChanges) = 3
    /\ FileWriteFailed
    /\ Len(PutFileRequests) = 2
    /\ branchFiles = <<submitChanges[1].path>>
    /\ pc = "done"

====
